---- MODULE Spec2Model ----
(***************************************************************************)
(* A model of the persistent HotStuff replica of this repository: the      *)
(* consensus driver (persistentConsensusBase), its two rule sets           *)
(* (PersistentChainedHotStuff, PersistentSimpleHotStuff), the persistent   *)
(* synchronizer, the Badger block store and the state store.               *)
(*                                                                         *)
(* Every handler of a replica is a function from the replica's record to   *)
(* the replica's record after the handler has run to completion, so that   *)
(* the nested calls of the code (AdvanceView -> Propose -> OnPropose ->     *)
(* commit -> PruneToHeight ...) are composed exactly as the code composes  *)
(* them.  The actions apply one handler to one replica.                    *)
(***************************************************************************)
EXTENDS Integers, Sequences, FiniteSets, TLC

\* ------------------------------------------------------------------ bounds

\* The highest view a replica may enter and a block may carry in the runs of
\* three honest replicas and one Byzantine replica.
MaxView == 5
\* The highest view in the runs of one replica against three Byzantine ones.
MaxSoloView == 3
\* The highest view in the runs where the leader of view 1 is silent and the
\* other replicas time out.
MaxTimeoutView == 2
\* The length of the chain of certified blocks, and the highest view of a block,
\* in the runs that call one rule on a drawn chain.
MaxChain == 4
MaxRuleView == 3
\* The number of blocks (hash preimages) besides genesis that may ever be created.
MaxBlocks == 6
\* How many crashes, failed state-store writes and failed loads one run may hold.
MaxFaults == 2
\* The batches of commands the client queues.
MaxCommands == 2
\* How many blocks a Byzantine leader makes for one view.
MaxForged == 1
\* How many blocks a Byzantine leader makes for one view where it makes blocks
\* with withheld parents and on certificates of any view.
MaxForgedPerView == 2
\* The highest view in those runs.
MaxForgeView == 3
\* The highest view of the runs in which a replica that commits and prunes may
\* crash and be started again.
MaxPruneView == 4
\* How many threads use the block store at once, how many block hashes they
\* ask for, and how many cancel functions one run makes.
MaxThreads == 2
MaxFetchHashes == 2
MaxHandles == 3
\* A StateDB: how many storage keys and values, the largest amount of one
\* call, how many calls in one run, how long the journal and how many open
\* snapshots.
MaxStorageKeys == 1
MaxWord == 1
MaxAmount == 1
MaxCalls == 4
MaxJournal == 3
MaxSnapshots == 2
\* The number of values of a byte: generateContractAddress puts byte(nonce)
\* into the last byte of the sender's address.
AddressSpace == 256
\* The gas of a transaction, of a contract creation, of a byte of deployed
\* code, of an instruction, of SLOAD and of SSTORE; the stack limit.
GasBase == 21000
GasCreate == 32000
GasCodeByte == 200
GasOp == 3
GasSload == 800
GasSstore == 20000
StackLimit == 1024
\* ExecutionConfig.BaseFee, one gwei: prices and balances are counted in gwei.
BaseFee == 1
\* What stands for 2^64 where a uint64 wraps.
Wrapped == 1000000000
\* The gas limits of the transactions of a run, one below the base cost and
\* one that pays for every program of the runs; their highest gas price, and
\* how many are executed.
SmallGas == 1
AmpleGas == 100000
MaxGasPrice == 1
MaxTxs == 2
\* DefaultConfig of the transaction pool: PriceLimit and PriceBump (percent).
PriceLimit == 1
PriceBump == 10
\* The pool of a run: GlobalSlots + GlobalQueue, the nonces and gas limits of
\* the transactions offered, and their gas prices: zero, LowPrice, RoundPrice
\* and the two prices around RoundPrice raised by PriceBump percent.
PoolCapacity == 3
MaxPoolNonce == 1
MaxPoolGas == 1
LowPrice == 5
RoundPrice == 100
\* The highest gas limit GetTransactionsForBlock is called with.
MaxBlockGas == 3
\* The keys of a trie of a run are of at most MaxKeyLen bytes; its values are
\* the one-byte values up to MaxValue.
MaxKeyLen == 2
MaxValue == 1
\* How many Puts and Deletes a run makes.
MaxTrieCalls == 4
\* The NodeType constants, and the children of a branch.
BranchNode == 0
ExtensionNode == 1
LeafNode == 2
EmptyNode == 3
NumNibbles == 16

\* ------------------------------------------------------- the configuration

Replicas == {1, 2, 3, 4}
NumReplicas == Cardinality(Replicas)
NumFaulty == (NumReplicas - 1) \div 3
\* 2f+1 of 3f+1
QuorumSize == NumReplicas - NumFaulty
\* The round-robin rotation of the specification's scenarios: R1 leads view 1.
GetLeader(view) == ((view + NumReplicas - 1) % NumReplicas) + 1

\* ------------------------------------------------------ hashes and blocks

\* hotstuff.Hash{}: the all-zero hash, the "no block" sentinel.
ZeroHash == 0
\* hotstuff.GetGenesis().Hash(): the hash of the genesis block.
GenesisHash == 1

\* A quorum certificate: the view and hash it certifies, and whether its
\* signature is an aggregate of 2f+1 authentic partial signatures over them.
QC(view, hash, sig) == [view |-> view, hash |-> hash, sig |-> sig]
\* hotstuff.NewQuorumCert(nil, 0, hotstuff.Hash{}): the state store's default.
EmptyQC == QC(0, ZeroHash, FALSE)
\* crypto.CreateQuorumCert(genesis, {}): the certificate of the genesis block.
GenesisQC == QC(0, GenesisHash, TRUE)
\* A timeout certificate.
TC(view, sig) == [view |-> view, sig |-> sig]
\* hotstuff.NewTimeoutCert(nil, 0)
EmptyTC == TC(0, TRUE)

\* SyncInfo: an optional QC and an optional TC.
SyncInfo(hasQC, qc, hasTC, tc) == [hasQC |-> hasQC, qc |-> qc, hasTC |-> hasTC, tc |-> tc]
NewSyncInfo == SyncInfo(FALSE, EmptyQC, FALSE, EmptyTC)
WithQC(si, qc) == [si EXCEPT !.hasQC = TRUE, !.qc = qc]
WithTC(si, tc) == [si EXCEPT !.hasTC = TRUE, !.tc = tc]

\* hotstuff.NewBlock(parent, qc, cmd, view, proposer)
NewBlock(parent, qc, cmd, view, proposer) ==
    [parent |-> parent, qc |-> qc, cmd |-> cmd, view |-> view, proposer |-> proposer]
Genesis == NewBlock(ZeroHash, EmptyQC, 0, 0, 0)

\* The hash function, as the table of the preimages hashed so far: the hash of
\* a block is its index.  Equal contents have equal hashes, different contents
\* different ones (collision resistance).
HashOf(table, block) ==
    IF \E h \in 1..Len(table) : table[h] = block
    THEN CHOOSE h \in 1..Len(table) : table[h] = block
    ELSE Len(table) + 1
Intern(table, block) ==
    IF \E h \in 1..Len(table) : table[h] = block THEN table ELSE Append(table, block)

\* ---------------------------------------------------------------- crypto

\* crypto.VerifyQuorumCert: 2f+1 partial signatures over (view, hash); the
\* genesis certificate verifies.
VerifyQuorumCert(qc) == qc.sig
\* crypto.VerifyTimeoutCert: 2f+1 timeout signatures over the view; the
\* view-0 certificate verifies.
VerifyTimeoutCert(tc) == tc.sig


\* ------------------------------------------------------ the replica record

(***************************************************************************)
(* A replica is a record.  Its fields:                                     *)
(*   id                          opts.ID()                                 *)
(*   rules                       "chained" or "simple": the Rules in use    *)
(*   status                      "running", "down" (crashed) or "hung"      *)
(*   lastVote, bExec             persistentConsensusBase                    *)
(*   bLock                       the rules' locked block (bLock / locked)   *)
(*   currentView, highQC,                                                  *)
(*   highTC, lastTimeout,                                                  *)
(*   timeouts                    PersistentSynchronizer (lastTimeout 0: nil)*)
(*   pruneHeight                 badgerBlockChain                           *)
(*   store, heights, dbPrune     the Badger block database: block:<hash>,   *)
(*                               height:<view>, meta:prune_height           *)
(*   ssLastVote, ssCommitted,                                              *)
(*   ssLock, ssView, ssHighQC,                                             *)
(*   ssHighTC                    the StateStore's keys                      *)
(*   executed, sentVotes,                                                  *)
(*   proposed, sentTimeouts,                                               *)
(*   commits, forked             what the replica has done: Executor.Exec   *)
(*                               calls, votes sent, proposals broadcast,    *)
(*                               views of the timeout messages broadcast,   *)
(*                               commits (those that moved bExec),          *)
(*                               ForkHandler.Fork calls                     *)
(*   entered, returned,          the views AdvanceView has entered, what    *)
(*   restarts                    was observed at the last return of         *)
(*                               AdvanceView, and how often the process has *)
(*                               been started again                         *)
(*   formed                      the timeout certificates OnRemoteTimeout   *)
(*                               has made: the view and the IDs of the      *)
(*                               messages collected for it                  *)
(*   outbox                      the timeout messages the running handler   *)
(*                               has broadcast                              *)
(*   chainGap                    commit has failed in this process: an      *)
(*                               ancestor of the block was not to be had    *)
(*   ruled                       the last call of a rule made on its own:   *)
(*                               what it was given and what it returned     *)
(*   blocks, avail, io           the handler's surroundings: the hash       *)
(*                               table, the hashes configuration.Fetch can  *)
(*                               deliver, and the handler's inputs          *)
(***************************************************************************)

\* The inputs of one handler run.
\*   fetch    configuration.Fetch succeeds for the blocks in avail
\*   failKey  the StateStore key whose writes fail ("none": no write fails)
\*   accept   acceptor.Accept's answer
\*   cmd      commandQueue.Get's command (0: none before the deadline)
\*   crashAt  where the process dies during the handler ("none": it does not)
IO(fetch, failKey, accept, cmd, crashAt) ==
    [fetch |-> fetch, failKey |-> failKey, accept |-> accept, cmd |-> cmd, crashAt |-> crashAt]
QuietIO == IO(TRUE, "none", TRUE, 1, "none")

Blk(c, h) == c.blocks[h]
ViewOf(c, h) == c.blocks[h].view

\* The process dies.  What was in memory is gone: nothing reads the in-memory
\* fields of a replica that is down, and InitModule sets every one of them
\* again; until then the record shows what the process held when it died.
Crashed(c) == [c EXCEPT !.status = "down"]

\* ------------------------------------------------------------- StateStore

StateStoreSetLastVote(c, view) ==
    IF c.io.failKey = "last_vote" THEN c ELSE [c EXCEPT !.ssLastVote = view]
SetCommittedBlockHash(c, hash) ==
    IF c.io.failKey = "committed_hash" THEN c ELSE [c EXCEPT !.ssCommitted = hash]
SetLockedBlockHash(c, hash) ==
    IF c.io.failKey = "lock_hash" THEN c ELSE [c EXCEPT !.ssLock = hash]
SetCurrentView(c, view) ==
    IF c.io.failKey = "current_view" THEN c ELSE [c EXCEPT !.ssView = view]
SetHighQC(c, qc) ==
    IF c.io.failKey = "high_qc" THEN c ELSE [c EXCEPT !.ssHighQC = qc]
SetHighTC(c, tc) ==
    IF c.io.failKey = "high_tc" THEN c ELSE [c EXCEPT !.ssHighTC = tc]

\* -------------------------------------------------------- badgerBlockChain

\* storeUnsafe: block:<hash> and height:<view> in one transaction.
storeUnsafe(c, h) ==
    [c EXCEPT !.store = @ \cup {h}, !.heights[ViewOf(c, h)] = h]
\* Store
Store(c, h) == storeUnsafe(c, h)
\* LocalGet / localGetUnsafe
LocalGet(c, h) == h \in c.store
\* getByHeightUnsafe: the hash under height:<view>, then the block under it.
getByHeightUnsafe(c, view) ==
    IF c.heights[view] # ZeroHash /\ c.heights[view] \in c.store THEN c.heights[view] ELSE ZeroHash

\* Get: the local block, else the block configuration.Fetch returns, stored.
\* The result is the replica after the call and whether the block was found.
Get(c, h) ==
    IF LocalGet(c, h) THEN [c |-> c, ok |-> TRUE]
    ELSE IF c.io.fetch /\ h \in c.avail THEN [c |-> storeUnsafe(c, h), ok |-> TRUE]
    ELSE [c |-> c, ok |-> FALSE]

\* The walk of PruneToHeight that marks the views of the committed branch.
\* The code's loop has no bound; fuel 0 is the loop that never ends.
RECURSIVE committedViewsWalk(_, _, _, _)
committedViewsWalk(c, h, views, fuel) ==
    IF fuel = 0 THEN [views |-> views, ends |-> FALSE]
    ELSE IF h < c.pruneHeight THEN [views |-> views, ends |-> TRUE]
    ELSE LET block == getByHeightUnsafe(c, h) IN
         IF block = ZeroHash THEN [views |-> views, ends |-> TRUE]
         ELSE LET parent == Blk(c, block).parent IN
              IF ~LocalGet(c, parent) \/ ViewOf(c, parent) < c.pruneHeight
              THEN [views |-> views, ends |-> TRUE]
              ELSE committedViewsWalk(c, ViewOf(c, parent), views \cup {ViewOf(c, parent)}, fuel - 1)

\* The forked blocks of views height, height-1, ..., pruneHeight+1, in that order.
RECURSIVE forkedFrom(_, _, _)
forkedFrom(c, h, views) ==
    IF h <= c.pruneHeight THEN <<>>
    ELSE (IF h \notin views /\ getByHeightUnsafe(c, h) # ZeroHash
          THEN <<getByHeightUnsafe(c, h)>> ELSE <<>>) \o forkedFrom(c, h - 1, views)

savePruneHeight(c) ==
    IF c.io.failKey = "prune_height" THEN c ELSE [c EXCEPT !.dbPrune = c.pruneHeight]

\* PruneToHeight, once the walk over the committed branch has ended or not.
pruneForked(c, height, walk) ==
    IF ~walk.ends THEN [c |-> [c EXCEPT !.status = "hung"], forked |-> <<>>]
    ELSE [c |-> savePruneHeight([c EXCEPT !.pruneHeight = height]),
          forked |-> forkedFrom(c, height, walk.views)]

\* PruneToHeight: the replica after the call and the forked blocks returned.
PruneToHeight(c, height) ==
    pruneForked(c, height,
        committedViewsWalk(c, ViewOf(c, c.bExec), {ViewOf(c, c.bExec)}, MaxView + 2))

\* Extends, over the blocks held locally.
RECURSIVE Extends(_, _, _)
Extends(c, block, target) ==
    IF ViewOf(c, block) > ViewOf(c, target)
    THEN LocalGet(c, Blk(c, block).parent) /\ Extends(c, Blk(c, block).parent, target)
    ELSE block = target

\* ------------------------------------------------------------ the rules

\* A rule's answer: the replica after the call (Get may have stored a fetched
\* block, the lock may have moved) and the block to commit (ZeroHash: nil).
NoBlock(c) == [c |-> c, block |-> ZeroHash]

\* PersistentChainedHotStuff.qcRef
qcRef(c, qc) ==
    IF qc.hash = ZeroHash THEN [c |-> c, ok |-> FALSE] ELSE Get(c, qc.hash)

\* persistLock / persistLocked
persistLock(c) == SetLockedBlockHash(c, c.bLock)

\* "if block.View() > locked.View()": move the lock and persist it
lockIfHigher(c, block) ==
    IF ViewOf(c, block) > ViewOf(c, c.bLock) THEN persistLock([c EXCEPT !.bLock = block]) ELSE c

\* The comparison with the lock not strict.
chainedSafeMutant(q, qcBlock) ==
    IF ~q.ok THEN [c |-> q.c, ok |-> FALSE]
    ELSE [c |-> q.c, ok |-> ViewOf(q.c, qcBlock) >= ViewOf(q.c, q.c.bLock)]

\* PersistentChainedHotStuff.VoteRule, after qcRef has returned q
chainedSafe(q, qcBlock) ==
    IF ~q.ok THEN [c |-> q.c, ok |-> FALSE]
    ELSE [c |-> q.c, ok |-> ViewOf(q.c, qcBlock) > ViewOf(q.c, q.c.bLock)]

\* PersistentChainedHotStuff.VoteRule: the replica after the call and the answer.
ChainedVoteRule(c, block) == chainedSafe(qcRef(c, Blk(c, block).qc), Blk(c, block).qc.hash)

\* The second parent link not tested: a two-chain decides.
chainedDecideMutant(q3, block1, block2) ==
    IF ~q3.ok THEN NoBlock(q3.c)
    ELSE IF Blk(q3.c, block1).parent = block2
         THEN [c |-> q3.c, block |-> Blk(q3.c, block2).qc.hash]
         ELSE NoBlock(q3.c)

\* PersistentChainedHotStuff.CommitRule, after the third qcRef has returned q3
chainedDecide(q3, block1, block2) ==
    IF ~q3.ok THEN NoBlock(q3.c)
    ELSE IF Blk(q3.c, block1).parent = block2
            /\ Blk(q3.c, block2).parent = Blk(q3.c, block2).qc.hash
         THEN [c |-> q3.c, block |-> Blk(q3.c, block2).qc.hash]
         ELSE NoBlock(q3.c)

\* ... after the second qcRef has returned q2, which found block2
chainedLock(q2, block1, block2) ==
    IF ~q2.ok THEN NoBlock(q2.c)
    ELSE chainedDecide(qcRef(lockIfHigher(q2.c, block2), Blk(q2.c, block2).qc), block1, block2)

\* ... after the first qcRef has returned q1, which found block1
chainedPreCommit(q1, block1) ==
    IF ~q1.ok THEN NoBlock(q1.c)
    ELSE chainedLock(qcRef(q1.c, Blk(q1.c, block1).qc), block1, Blk(q1.c, block1).qc.hash)

\* PersistentChainedHotStuff.CommitRule
ChainedCommitRule(c, block) ==
    chainedPreCommit(qcRef(c, Blk(c, block).qc), Blk(c, block).qc.hash)

\* PersistentSimpleHotStuff.VoteRule, after Get has returned p
simpleSafe(p, parent) ==
    IF ~p.ok THEN [c |-> p.c, ok |-> FALSE]
    ELSE [c |-> p.c, ok |-> ~(ViewOf(p.c, parent) < ViewOf(p.c, p.c.bLock))]

\* PersistentSimpleHotStuff.VoteRule
SimpleVoteRule(c, block) ==
    IF ViewOf(c, block) < c.currentView THEN [c |-> c, ok |-> FALSE]
    ELSE simpleSafe(Get(c, Blk(c, block).qc.hash), Blk(c, block).qc.hash)

\* The views not tested: any direct parent link decides.
simpleDecideMutant(g, parent, grandparent) ==
    IF ~g.ok THEN NoBlock(g.c)
    ELSE IF Blk(g.c, parent).parent = grandparent
         THEN [c |-> g.c, block |-> grandparent]
         ELSE NoBlock(g.c)

\* PersistentSimpleHotStuff.CommitRule, after the second Get has returned g
simpleDecide(g, parent, grandparent) ==
    IF ~g.ok THEN NoBlock(g.c)
    ELSE IF Blk(g.c, parent).parent = grandparent
            /\ ViewOf(g.c, parent) = ViewOf(g.c, grandparent) + 1
         THEN [c |-> g.c, block |-> grandparent]
         ELSE NoBlock(g.c)

\* ... after the first Get has returned p, which found parent
simpleLock(p, parent) ==
    IF ~p.ok THEN NoBlock(p.c)
    ELSE simpleDecide(Get(lockIfHigher(p.c, parent), Blk(p.c, parent).qc.hash),
                      parent, Blk(p.c, parent).qc.hash)

\* PersistentSimpleHotStuff.CommitRule
SimpleCommitRule(c, block) ==
    simpleLock(Get(c, Blk(c, block).qc.hash), Blk(c, block).qc.hash)

\* cs.impl.VoteRule / cs.impl.CommitRule
VoteRule(c, block) ==
    IF c.rules = "chained" THEN ChainedVoteRule(c, block) ELSE SimpleVoteRule(c, block)
CommitRule(c, block) ==
    IF c.rules = "chained" THEN ChainedCommitRule(c, block) ELSE SimpleCommitRule(c, block)

\* ------------------------------------------------ persistentConsensusBase

\* executor.Exec(block); cs.bExec = block
Exec(c, block) == [c EXCEPT !.executed = Append(@, block), !.bExec = block]

\* commitInner: the replica after the call and whether it returned an error.
RECURSIVE commitInner(_, _)

\* ... after the recursive call for the parent has returned r
commitInnerExec(r, block) ==
    IF r.err THEN r ELSE [c |-> Exec(r.c, block), err |-> FALSE]

\* ... after blockChain.Get(block.Parent()) has returned g
commitInnerParent(g, block) ==
    IF ~g.ok THEN [c |-> g.c, err |-> TRUE]
    ELSE commitInnerExec(commitInner(g.c, Blk(g.c, block).parent), block)

commitInner(c, block) ==
    IF ViewOf(c, c.bExec) >= ViewOf(c, block) THEN [c |-> c, err |-> FALSE]
    ELSE commitInnerParent(Get(c, Blk(c, block).parent), block)

\* commit, after PruneToHeight has returned p: forkHandler.Fork for each
\* forked block.  The commit is on record when it has moved bExec.
commitFork(c, p, block) ==
    [p.c EXCEPT !.forked = @ \o p.forked,
                !.commits = IF p.c.bExec = c.bExec THEN @
                            ELSE Append(@, [block |-> block, prev |-> c.bExec])]

\* commit, after commitInner has returned r
commitPersist(c, r, block) ==
    IF r.err THEN [r.c EXCEPT !.chainGap = TRUE]
    ELSE IF c.io.crashAt = "commit" THEN Crashed(r.c)
    ELSE commitFork(c, PruneToHeight(SetCommittedBlockHash(r.c, block), ViewOf(c, block)), block)

\* commit
commit(c, block) == commitPersist(c, commitInner(c, block), block)

\* StopVoting
StopVoting(c, view) ==
    IF c.lastVote < view
    THEN StateStoreSetLastVote([c EXCEPT !.lastVote = view], view)
    ELSE c

\* ------------------------------------------------- PersistentSynchronizer

\* SyncInfo()
CurrentSyncInfo(c) == WithTC(WithQC(NewSyncInfo, c.highQC), c.highTC)

\* updateHighQC, after blockChain.Get(qc.BlockHash()) has returned g
setHighQC(g, qc) ==
    IF ~g.ok THEN g.c
    ELSE IF ViewOf(g.c, qc.hash) > g.c.highQC.view
         THEN SetHighQC([g.c EXCEPT !.highQC = qc], qc)
         ELSE g.c

\* updateHighQC
updateHighQC(c, qc) == setHighQC(Get(c, qc.hash), qc)

\* updateHighTC
updateHighTC(c, tc) ==
    IF tc.view > c.highTC.view THEN SetHighTC([c EXCEPT !.highTC = tc], tc) ELSE c

RECURSIVE AdvanceView(_, _)
RECURSIVE Propose(_, _)
RECURSIVE OnPropose(_, _, _)

\* The comparison off by one in a view the replica does not lead: a
\* certificate for the view just left is not taken for stale.
staleViewMutant(c, v) ==
    IF GetLeader(c.currentView) = c.id THEN v < c.currentView ELSE v + 1 < c.currentView

\* "if v < s.View() { return }": the certificate is for a view already left
staleView(c, v) == v < c.currentView

\* What is observed when AdvanceView returns: the views of highQC and highTC
\* and the current view.
Returned(c) ==
    IF c.status # "running" THEN c
    ELSE [c EXCEPT !.returned = [qc |-> c.highQC.view, tc |-> c.highTC.view,
                                 view |-> c.currentView]]

\* AdvanceView's check for a TC: the replica, the view v of the certificate so
\* far, and whether AdvanceView has returned.
checkTC(c, syncInfo) ==
    IF ~syncInfo.hasTC THEN [c |-> c, v |-> 0, return |-> FALSE]
    ELSE IF ~VerifyTimeoutCert(syncInfo.tc) THEN [c |-> c, v |-> 0, return |-> TRUE]
    ELSE [c |-> updateHighTC(c, syncInfo.tc), v |-> syncInfo.tc.view, return |-> FALSE]

\* AdvanceView's check for a QC (opts.ShouldUseAggQC() is off)
checkQC(s, syncInfo) ==
    IF s.return \/ ~syncInfo.hasQC THEN s
    ELSE IF ~VerifyQuorumCert(syncInfo.qc) THEN [s EXCEPT !.return = TRUE]
    ELSE [c |-> updateHighQC(s.c, syncInfo.qc),
          v |-> IF syncInfo.qc.view >= s.v THEN syncInfo.qc.view ELSE s.v,
          return |-> FALSE]

\* AdvanceView in the new view: propose if the replica leads it
startView(c, syncInfo) ==
    IF GetLeader(c.currentView) = c.id THEN Propose(c, syncInfo) ELSE c

\* AdvanceView from the comparison with the current view on
enterView(s, syncInfo) ==
    IF s.return \/ staleView(s.c, s.v) THEN s.c
    ELSE startView(
            SetCurrentView([s.c EXCEPT !.currentView = s.v + 1, !.lastTimeout = 0,
                                       !.entered = Append(@, s.v + 1)], s.v + 1),
            syncInfo)

\* AdvanceView
AdvanceView(c, syncInfo) ==
    Returned(enterView(checkQC(checkTC(c, syncInfo), syncInfo), syncInfo))

\* Propose, from blockChain.Store on: broadcast, then the self vote
proposeSend(c, h) == OnPropose([Store(c, h) EXCEPT !.proposed = @ \cup {h}], c.id, h)

\* Propose, from commandQueue.Get on
proposeBlock(c, qc) ==
    IF c.io.cmd = 0 THEN c
    ELSE proposeSend(
            [c EXCEPT !.blocks = Intern(@, NewBlock(qc.hash, qc, c.io.cmd, c.currentView, c.id))],
            HashOf(c.blocks, NewBlock(qc.hash, qc, c.io.cmd, c.currentView, c.id)))

\* Propose: cert.QC() of a SyncInfo without a QC is the zero QuorumCert
Propose(c, cert) ==
    IF cert.hasQC THEN proposeBlock(Get(c, cert.qc.hash).c, cert.qc)
    ELSE proposeBlock(c, EmptyQC)

\* OnPropose, the vote leaves: to the next leader, or as an event to itself
onProposeSend(c, block) ==
    IF c.io.crashAt = "vote" THEN Crashed(c)
    ELSE [c EXCEPT !.sentVotes = Append(@, [view |-> ViewOf(c, block), hash |-> block,
                                            to |-> GetLeader(c.lastVote + 1)])]

\* OnPropose, from the check of lastVote on
onProposeVote(c, block) ==
    IF c.status # "running" THEN c
    ELSE IF ~(ViewOf(c, block) > c.lastVote) THEN c
    ELSE onProposeSend(
            StateStoreSetLastVote([c EXCEPT !.lastVote = ViewOf(c, block)], ViewOf(c, block)),
            block)

\* OnPropose: synchronizer.AdvanceView(NewSyncInfo().WithQC(block.QuorumCert()))
onProposeAdvance(c, block) ==
    IF c.status # "running" THEN c
    ELSE AdvanceView(c, WithQC(NewSyncInfo, Blk(c, block).qc))

\* OnPropose: "if b := CommitRule(block); b != nil { commit(b) }"
onProposeCommit(cr) == IF cr.block # ZeroHash THEN commit(cr.c, cr.block) ELSE cr.c

\* OnPropose, after VoteRule has returned vr
onProposeAccept(vr, block) ==
    IF ~vr.ok THEN vr.c
    ELSE IF ~vr.c.io.accept THEN Get(vr.c, Blk(vr.c, block).qc.hash).c
    ELSE onProposeVote(
            onProposeAdvance(
                onProposeCommit(
                    CommitRule(Store(Get(vr.c, Blk(vr.c, block).qc.hash).c, block), block)),
                block),
            block)

\* OnPropose: proposal.ID is id, proposal.Block is block
OnPropose(c, id, block) ==
    IF ~VerifyQuorumCert(Blk(c, block).qc) THEN c
    ELSE IF id # GetLeader(ViewOf(c, block)) THEN c
    ELSE onProposeAccept(VoteRule(c, block), block)

\* A timeout message: TimeoutMsg{ID, View, SyncInfo, ViewSignature}.  sig is the
\* replica whose signature over the view the message carries (0: none that verifies).
TimeoutMsg(id, view, syncInfo, sig) == [id |-> id, view |-> view, si |-> syncInfo, sig |-> sig]

\* crypto.CreateTimeoutCert over the collected messages <<view, ID, signer>>: the
\* certificate verifies when 2f+1 distinct replicas signed.
CreateTimeoutCert(view, collected) ==
    TC(view, Cardinality({t[3] : t \in collected}) >= QuorumSize)

\* s.timeouts[view]
Collected(c, view) == {t \in c.timeouts : t[1] = view}

\* The quorum counted one short: 2f messages make a certificate.
remoteTimeoutQuorumMutant(c, view) ==
    IF Cardinality(Collected(c, view)) < QuorumSize - 1 THEN c
    ELSE AdvanceView([c EXCEPT !.timeouts = @ \ Collected(c, view),
                               !.formed = @ \cup {[view |-> view,
                                                   ids |-> {t[2] : t \in Collected(c, view)}]}],
                     WithTC(CurrentSyncInfo(c), CreateTimeoutCert(view, Collected(c, view))))

\* OnRemoteTimeout, from the count of the view's messages on
remoteTimeoutQuorum(c, view) ==
    IF Cardinality(Collected(c, view)) < QuorumSize THEN c
    ELSE AdvanceView([c EXCEPT !.timeouts = @ \ Collected(c, view),
                               !.formed = @ \cup {[view |-> view,
                                                   ids |-> {t[2] : t \in Collected(c, view)}]}],
                     WithTC(CurrentSyncInfo(c), CreateTimeoutCert(view, Collected(c, view))))

\* OnRemoteTimeout, after AdvanceView(timeout.SyncInfo): the message is kept
\* unless one of the same view and ID is there
remoteTimeoutAdd(c, timeout) ==
    IF c.status # "running" THEN c
    ELSE IF \E t \in c.timeouts : t[1] = timeout.view /\ t[2] = timeout.id
         THEN remoteTimeoutQuorum(c, timeout.view)
         ELSE remoteTimeoutQuorum(
                [c EXCEPT !.timeouts = @ \cup {<<timeout.view, timeout.id, timeout.sig>>}],
                timeout.view)

\* OnRemoteTimeout, up to its deferred cleanup
remoteTimeoutBody(c, timeout) ==
    IF timeout.sig = 0 THEN c
    ELSE remoteTimeoutAdd(AdvanceView(c, timeout.si), timeout)

\* OnRemoteTimeout's deferred cleanup, with the view read on entry
remoteTimeoutCleanup(c, currView) ==
    IF c.status # "running" THEN c
    ELSE [c EXCEPT !.timeouts = {t \in @ : ~(t[1] < currView)}]

\* OnRemoteTimeout
OnRemoteTimeout(c, timeout) ==
    remoteTimeoutCleanup(remoteTimeoutBody(c, timeout), c.currentView)

\* OnLocalTimeout, from configuration.Timeout(timeoutMsg) on
localTimeoutSend(c, timeoutMsg) ==
    OnRemoteTimeout([c EXCEPT !.sentTimeouts = @ \cup {timeoutMsg.view},
                              !.outbox = @ \cup {timeoutMsg}], timeoutMsg)

\* OnLocalTimeout
OnLocalTimeout(c) ==
    IF c.lastTimeout # 0 /\ c.lastTimeout = c.currentView THEN c
    ELSE localTimeoutSend(
            StopVoting([c EXCEPT !.lastTimeout = c.currentView], c.currentView),
            TimeoutMsg(c.id, c.currentView, CurrentSyncInfo(c), c.id))

\* OnNewView
OnNewView(c, syncInfo) == AdvanceView(c, syncInfo)

\* Start: the initial proposal
Start(c) ==
    IF c.currentView = 1 /\ GetLeader(1) = c.id
    THEN Propose([c EXCEPT !.status = "running"], CurrentSyncInfo(c))
    ELSE [c EXCEPT !.status = "running"]

\* ------------------------------------------------------------- InitModule

\* PersistentChainedHotStuff.loadState / PersistentSimpleHotStuff.loadState,
\* and InitModule's fallback when the load fails
rulesLoadState(c, loadFail) ==
    IF loadFail = "rules" THEN persistLock([c EXCEPT !.bLock = GenesisHash])
    ELSE [c EXCEPT !.bLock = IF LocalGet(c, c.ssLock) THEN c.ssLock ELSE GenesisHash]

\* persistentConsensusBase.loadState; a failed load leaves the fields as constructed
consensusLoadState(c, loadFail) ==
    IF loadFail = "consensus" THEN [c EXCEPT !.lastVote = 0, !.bExec = GenesisHash]
    ELSE [c EXCEPT !.lastVote = c.ssLastVote,
                   !.bExec = IF LocalGet(c, c.ssCommitted) THEN c.ssCommitted ELSE GenesisHash]

\* PersistentSynchronizer.loadState, and initializeDefaults with persistState
\* when the load fails
synchronizerLoadState(c, loadFail) ==
    IF loadFail = "synchronizer"
    THEN SetHighTC(SetHighQC(SetCurrentView(
            [c EXCEPT !.currentView = 1, !.highQC = GenesisQC, !.highTC = EmptyTC],
            1), GenesisQC), EmptyTC)
    ELSE [c EXCEPT !.currentView = c.ssView, !.highQC = c.ssHighQC, !.highTC = c.ssHighTC]

\* The modules' construction and InitModule, on the replica's data directory
InitModule(c, loadFail) ==
    LET c0 == [c EXCEPT !.status = "new", !.lastTimeout = 0, !.timeouts = {},
                        !.pruneHeight = c.dbPrune, !.chainGap = FALSE]
    IN  synchronizerLoadState(consensusLoadState(rulesLoadState(c0, loadFail), loadFail), loadFail)

\* No rule has been called on its own.
NoRuling ==
    [rule |-> "none", block |-> ZeroHash, fetch |-> FALSE, store |-> {}, locked |-> ZeroHash,
     ok |-> FALSE, result |-> ZeroHash]

\* A replica on a fresh data directory, before InitModule
FreshReplica(id, rules) ==
    [id |-> id, rules |-> rules, status |-> "down",
     lastVote |-> 0, bExec |-> GenesisHash, bLock |-> GenesisHash,
     currentView |-> 1, highQC |-> EmptyQC, highTC |-> EmptyTC, lastTimeout |-> 0,
     timeouts |-> {}, pruneHeight |-> 0,
     store |-> {GenesisHash}, heights |-> [v \in 0..(MaxView + 1) |-> IF v = 0 THEN GenesisHash ELSE ZeroHash],
     dbPrune |-> 0,
     ssLastVote |-> 0, ssCommitted |-> GenesisHash, ssLock |-> GenesisHash, ssView |-> 1,
     ssHighQC |-> EmptyQC, ssHighTC |-> EmptyTC,
     executed |-> <<>>, sentVotes |-> <<>>, proposed |-> {}, sentTimeouts |-> {},
     commits |-> <<>>, forked |-> <<>>, entered |-> <<>>, returned |-> [qc |-> 0, tc |-> 0, view |-> 1], restarts |-> 0,
     formed |-> {}, outbox |-> {}, chainGap |-> FALSE, ruled |-> NoRuling,
     blocks |-> <<Genesis>>, avail |-> {}, io |-> QuietIO]

\* ------------------------------------------------------------- the system

VARIABLES
    replica,      \* the record of every replica that runs the code
    blocks,       \* the hash table: every block created so far
    honest,       \* the replicas that run the code; the others send what they like
    budget,       \* how many more faults (crash, failed write, failed load) may happen
    top,          \* the highest view of the run
    wire,         \* the timeout messages broadcast to replicas that run the code
    chain,        \* the block store as the threads of one process share it
    statedb,      \* a StateDB, the snapshots taken of it and the last call on it
    txpool,       \* a transaction pool and the last call on it
    trie          \* a Merkle Patricia trie and the last call on it

\* What does not belong to the consensus handlers, and its state while only
\* they run.
components == <<chain, statedb, txpool, trie>>
NoChain == [mut |-> 0, csMut |-> 0, stored |-> {}, pendingFetch |-> <<>>, handles |-> <<>>,
            thread |-> <<>>]
NoStateDB == [impl |-> "none"]
NoTxPool == [signer |-> "none"]
NoTrie == [on |-> FALSE]
ComponentsAtRest ==
    chain = NoChain /\ statedb = NoStateDB /\ txpool = NoTxPool /\ trie = NoTrie

\* The consensus handlers' state, and its value while a component runs alone.
consensus == <<replica, blocks, honest, budget, top, wire>>

vars == <<replica, blocks, honest, budget, top, wire, components>>

Byzantine == Replicas \ honest
Hashes == 1..Len(blocks)

\* The StateStore's and the block store's keys whose write may fail.
Keys == {"last_vote", "committed_hash", "lock_hash", "current_view", "high_qc", "high_tc",
         "prune_height"}

\* The inputs a handler may run under: the quiet ones, or one departure from
\* them.  A departure is an answer of the surroundings (Fetch finds nothing, the
\* acceptor refuses, no command is queued) or a fault (a write fails, the
\* process dies), which the budget pays for.
Departures ==
    {[QuietIO EXCEPT !.fetch = FALSE], [QuietIO EXCEPT !.accept = FALSE], [QuietIO EXCEPT !.cmd = 0]}
Faults ==
    {[QuietIO EXCEPT !.failKey = k] : k \in Keys}
    \cup {[QuietIO EXCEPT !.crashAt = p] : p \in {"commit", "vote"}}
IOs == {QuietIO} \cup Departures \cup (IF budget > 0 THEN Faults ELSE {})
Cost(io) == IF io \in Faults THEN 1 ELSE 0

\* Replica r as its handler sees it, and as it rests between two handlers.
Handle(r, io) ==
    [replica[r] EXCEPT !.blocks = blocks, !.avail = Hashes, !.io = io]
Rest(c) == [c EXCEPT !.blocks = <<>>, !.avail = {}, !.io = QuietIO, !.outbox = {}]

\* The handler of replica r ran under io and left c; without the fault of io it
\* would have left quiet.  A fault that changes nothing is not a fault.
Ran(r, io, c, quiet) ==
    /\ c.currentView <= top
    /\ Len(c.blocks) <= MaxBlocks + 1
    /\ Cost(io) = 1 => Rest(c) # Rest(quiet)
    /\ replica' = [replica EXCEPT ![r] = Rest(c)]
    /\ blocks' = c.blocks
    /\ budget' = budget - Cost(io)
    /\ wire' = IF honest = {r} THEN wire ELSE wire \cup c.outbox
    /\ UNCHANGED <<honest, top, components>>

\* ------------------------------------------- what the other replicas can send

\* The honest replicas that have voted for block h.
VotesFor(h) ==
    {r \in honest : \E i \in 1..Len(replica[r].sentVotes) : replica[r].sentVotes[i].hash = h}
\* A certificate over (view, hash) verifies when 2f+1 replicas signed that pair;
\* the Byzantine replicas sign anything, an honest one what it voted for.
Certified(h) ==
    h = GenesisHash \/ Cardinality(VotesFor(h)) + Cardinality(Byzantine) >= QuorumSize
ValidQCs == {QC(blocks[h].view, h, TRUE) : h \in {x \in Hashes : Certified(x)}}
ForgedQCs == {QC(top - 1, GenesisHash, FALSE)}

\* The honest replicas that have broadcast a timeout message for the view.
TimedOut(view) == {r \in honest : view \in replica[r].sentTimeouts}
ValidTCs ==
    {TC(v, TRUE) : v \in {x \in 0..(top - 1) :
        x = 0 \/ Cardinality(TimedOut(x)) + Cardinality(Byzantine) >= QuorumSize}}
ForgedTCs == {TC(top - 1, FALSE)}

SyncInfos ==
    {NewSyncInfo}
    \cup {WithQC(NewSyncInfo, qc) : qc \in ValidQCs \cup ForgedQCs}
    \cup {WithTC(NewSyncInfo, tc) : tc \in ValidTCs \cup ForgedTCs}
    \cup {WithTC(WithQC(NewSyncInfo, qc), tc) :
            qc \in ValidQCs \cup ForgedQCs, tc \in ValidTCs \cup ForgedTCs}

\* Who can send the block h as a ProposeMsg: the leader of its view, or, to
\* have one replica that is not the leader, the leader of the next view.
Senders(h) == {GetLeader(blocks[h].view), GetLeader(blocks[h].view + 1)}

\* ----------------------------------------------------------------- actions

\* A Byzantine leader makes a block on a certificate of an earlier view; the
\* block's parent need not be the certified block.  It makes at most MaxForged
\* blocks of one view, and the blocks are made in the order of their views.
CreateBlock ==
    \E view \in 1..top, qc \in ValidQCs, parent \in Hashes :
        LET block == NewBlock(parent, qc, 1, view, GetLeader(view)) IN
        /\ GetLeader(view) \in Byzantine
        /\ qc.view < view
        /\ parent \in {qc.hash, GenesisHash}
        /\ Len(blocks) <= MaxBlocks
        /\ \A h \in Hashes : blocks[h].proposer \in Byzantine => blocks[h].view <= view
        /\ Cardinality({h \in Hashes : blocks[h].view = view}) < MaxForged
        /\ Intern(blocks, block) # blocks
        /\ blocks' = Intern(blocks, block)
        /\ UNCHANGED <<replica, honest, budget, top, wire, components>>

\* The hash of a block that its maker shows to nobody: no replica holds the
\* block and Fetch never finds it.  It is the hash of no block of the table.
Withheld == 0 - 1

\* The certificates a Byzantine replica can hold when the votes go to honest
\* leaders: the genesis certificate and those an honest leader has sent out in
\* a block.
Published ==
    {GenesisQC} \cup {blocks[h].qc : h \in {x \in Hashes : blocks[x].proposer \in honest}}

\* A Byzantine leader makes a block of a view it leads, on any certificate it
\* holds that verifies, whatever the certificate's view; the block's parent is
\* the certified block or a block the leader withholds.
ForgeBlock ==
    \E view \in 1..top, qc \in ValidQCs \cap Published, parent \in Hashes \cup {Withheld} :
        LET block == NewBlock(parent, qc, 1, view, GetLeader(view)) IN
        /\ GetLeader(view) \in Byzantine
        /\ parent \in {qc.hash, Withheld}
        /\ Len(blocks) <= MaxBlocks
        /\ Cardinality({h \in Hashes : blocks[h].view = view}) < MaxForgedPerView
        /\ Intern(blocks, block) # blocks
        /\ blocks' = Intern(blocks, block)
        /\ UNCHANGED <<replica, honest, budget, top, wire, components>>

\* modules' Start: the event loop begins and the synchronizer starts.
StartReplica ==
    \E r \in honest, io \in IOs :
        /\ replica[r].status = "new"
        /\ Ran(r, io, Start(Handle(r, io)), Start(Handle(r, QuietIO)))

\* The ProposeMsg of replica id with block h arrives at r.
Proposal(r, io, id, h) ==
    /\ replica[r].status = "running"
    /\ id # r
    /\ id \in honest => h \in replica[id].proposed
    /\ Ran(r, io, OnPropose(Handle(r, io), id, h), OnPropose(Handle(r, QuietIO), id, h))

\* A NewViewMsg with si arrives at r, or r's vote collector has made the certificate.
NewView(r, io, si) ==
    /\ replica[r].status = "running"
    /\ Ran(r, io, OnNewView(Handle(r, io), si), OnNewView(Handle(r, QuietIO), si))

DeliverProposal ==
    \E r \in honest, io \in IOs, h \in Hashes \ {GenesisHash} :
        \E id \in Senders(h) : Proposal(r, io, id, h)

DeliverSyncInfo ==
    \E r \in honest, io \in IOs, si \in SyncInfos : NewView(r, io, si)

\* The highest view an honest replica is in, and the view a NewViewMsg is for.
Highest == CHOOSE v \in 1..MaxView :
    /\ \E r \in honest : replica[r].currentView = v
    /\ \A r \in honest : replica[r].currentView <= v
ViewFor(si) ==
    1 + (IF si.hasQC /\ (~si.hasTC \/ si.qc.view >= si.tc.view) THEN si.qc.view
         ELSE IF si.hasTC THEN si.tc.view ELSE 0)

\* A timely network: a message for a view arrives while no honest replica has
\* left that view behind, or never; a NewViewMsg and the votes of a view go to
\* the leader of the view they are for.  Commands are queued, blocks can be
\* fetched and the acceptor accepts.
TimelyStart ==
    \E r \in honest :
        /\ replica[r].status = "new"
        /\ Ran(r, QuietIO, Start(Handle(r, QuietIO)), Start(Handle(r, QuietIO)))

TimelyProposal ==
    \E r \in honest, h \in Hashes \ {GenesisHash} :
        \E id \in Senders(h) :
            /\ blocks[h].view >= Highest
            /\ Proposal(r, QuietIO, id, h)

TimelyNewView ==
    \E r \in honest, si \in SyncInfos :
        /\ ViewFor(si) >= Highest
        /\ r = GetLeader(ViewFor(si))
        /\ NewView(r, QuietIO, si)

\* The ProposeMsg of a Byzantine leader arrives at a replica that has not left
\* the view of the block, wherever the other replicas are.
ForgedProposal ==
    \E r \in honest, h \in Hashes \ {GenesisHash} :
        /\ blocks[h].proposer \in Byzantine
        /\ blocks[h].view >= replica[r].currentView
        /\ Proposal(r, QuietIO, blocks[h].proposer, h)

\* The view timer of r fires.
LocalTimeout ==
    \E r \in honest, io \in IOs :
        /\ replica[r].status = "running"
        /\ Ran(r, io, OnLocalTimeout(Handle(r, io)), OnLocalTimeout(Handle(r, QuietIO)))

\* The view timer of r fires, with a command queued.
TimelyTimeout ==
    \E r \in honest :
        /\ replica[r].status = "running"
        /\ Ran(r, QuietIO, OnLocalTimeout(Handle(r, QuietIO)), OnLocalTimeout(Handle(r, QuietIO)))

\* A TimeoutMsg that a replica has broadcast arrives at r, for the first time
\* or once more.
DeliverTimeout ==
    \E r \in honest, timeout \in wire :
        /\ replica[r].status = "running"
        /\ timeout.id # r
        /\ Ran(r, QuietIO, OnRemoteTimeout(Handle(r, QuietIO), timeout),
                           OnRemoteTimeout(Handle(r, QuietIO), timeout))

\* The process of r dies between two handlers.
Crash ==
    \E r \in honest :
        /\ replica[r].status \in {"new", "running"}
        /\ budget > 0
        /\ replica' = [replica EXCEPT ![r] = Crashed(replica[r])]
        /\ budget' = budget - 1
        /\ UNCHANGED <<blocks, honest, top, wire, components>>

\* The process of r is started again on its data directory; a load may fail.
Restart ==
    \E r \in honest, loadFail \in {"none", "rules", "consensus", "synchronizer"} :
        /\ replica[r].status = "down"
        /\ loadFail # "none" => budget > 0
        /\ replica' = [replica EXCEPT ![r] =
                Rest([InitModule(Handle(r, QuietIO), loadFail) EXCEPT !.restarts = @ + 1])]
        /\ budget' = IF loadFail = "none" THEN budget ELSE budget - 1
        /\ UNCHANGED <<blocks, honest, top, wire, components>>

\* A rule of replica r was called on its own with the block, Fetch answering or
\* not; it left c and returned ok (a VoteRule) or result (a CommitRule).
Ruling(r, rule, block, fetch, c, ok, result) ==
    /\ replica' = [replica EXCEPT ![r] = Rest([c EXCEPT !.ruled =
            [rule |-> rule, block |-> block, fetch |-> fetch, store |-> replica[r].store,
             locked |-> replica[r].bLock, ok |-> ok, result |-> result]])]
    /\ UNCHANGED <<blocks, honest, budget, top, wire, components>>

CallChainedVoteRule ==
    \E r \in honest, block \in Hashes \ {GenesisHash}, fetch \in BOOLEAN :
        /\ replica[r].rules = "chained" /\ replica[r].ruled = NoRuling
        /\ LET a == ChainedVoteRule(Handle(r, [QuietIO EXCEPT !.fetch = fetch]), block)
           IN  Ruling(r, "ChainedVoteRule", block, fetch, a.c, a.ok, ZeroHash)

CallChainedCommitRule ==
    \E r \in honest, block \in Hashes \ {GenesisHash}, fetch \in BOOLEAN :
        /\ replica[r].rules = "chained" /\ replica[r].ruled = NoRuling
        /\ LET a == ChainedCommitRule(Handle(r, [QuietIO EXCEPT !.fetch = fetch]), block)
           IN  Ruling(r, "ChainedCommitRule", block, fetch, a.c, a.block # ZeroHash, a.block)

CallSimpleVoteRule ==
    \E r \in honest, block \in Hashes \ {GenesisHash}, fetch \in BOOLEAN :
        /\ replica[r].rules = "simple" /\ replica[r].ruled = NoRuling
        /\ LET a == SimpleVoteRule(Handle(r, [QuietIO EXCEPT !.fetch = fetch]), block)
           IN  Ruling(r, "SimpleVoteRule", block, fetch, a.c, a.ok, ZeroHash)

CallSimpleCommitRule ==
    \E r \in honest, block \in Hashes \ {GenesisHash}, fetch \in BOOLEAN :
        /\ replica[r].rules = "simple" /\ replica[r].ruled = NoRuling
        /\ LET a == SimpleCommitRule(Handle(r, [QuietIO EXCEPT !.fetch = fetch]), block)
           IN  Ruling(r, "SimpleCommitRule", block, fetch, a.c, a.block # ZeroHash, a.block)

\* ---------------------------------------------------------- specifications

\* The replicas as InitModule leaves them on fresh data directories.  The load of
\* the synchronizer's state either succeeds (the store's defaults) or fails
\* (initializeDefaults: the genesis certificate).
Boot(who, rules, loadFail) ==
    [r \in who |-> Rest(InitModule([FreshReplica(r, rules) EXCEPT !.blocks = <<Genesis>>], loadFail))]

\* One replica and its surroundings: the three other replicas can sign any
\* certificate and send any message, which covers what honest replicas in other
\* views and Byzantine replicas send.  The process and its stores do not fail.
Solo(faults) ==
    /\ honest = {1}
    /\ \E rules \in {"chained", "simple"}, loadFail \in {"none", "synchronizer"} :
            replica = Boot(honest, rules, loadFail)
    /\ blocks = <<Genesis>>
    /\ budget = faults
    /\ top = MaxSoloView
    /\ wire = {}
    /\ ComponentsAtRest

Init == Solo(0)

Next ==
    \/ CreateBlock
    \/ StartReplica
    \/ DeliverProposal
    \/ DeliverSyncInfo
    \/ LocalTimeout

Spec == Init /\ [][Next]_vars

\* The same replica where the process may die and be started again, writes to
\* its stores may fail, and loads may fail.
InitCrash == Solo(MaxFaults)

NextCrash ==
    \/ CreateBlock
    \/ StartReplica
    \/ DeliverProposal
    \/ LocalTimeout
    \/ Crash
    \/ Restart

SpecCrash == InitCrash /\ [][NextCrash]_vars

\* Four replicas, replica 3 Byzantine (f = 1), no crash and no failing store.
InitNet ==
    /\ honest = {1, 2, 4}
    /\ \E rules \in {"chained", "simple"}, loadFail \in {"none", "synchronizer"} :
            replica = Boot(honest, rules, loadFail)
    /\ blocks = <<Genesis>>
    /\ budget = 0
    /\ top = MaxView
    /\ wire = {}
    /\ ComponentsAtRest

\* Four replicas on fresh data directories; replica 1, the leader of view 1, is
\* silent, and the view timers of the others fire.
InitTimeout ==
    /\ honest = {2, 3, 4}
    /\ \E rules \in {"chained", "simple"}, loadFail \in {"none", "synchronizer"} :
            replica = Boot(honest, rules, loadFail)
    /\ blocks = <<Genesis>>
    /\ budget = 0
    /\ top = MaxTimeoutView
    /\ wire = {}
    /\ ComponentsAtRest

NextTimeout ==
    \/ TimelyStart
    \/ TimelyTimeout
    \/ DeliverTimeout
    \/ TimelyProposal

SpecTimeout == InitTimeout /\ [][NextTimeout]_vars

\* The chains of MaxChain blocks on genesis where each block carries the
\* certificate of the block before it: a rule follows the certificates down from
\* the block it is given and reads nothing else of the table.  The parent of a
\* block is the certified block or genesis; the views are any.
RECURSIVE Chains(_)
Chains(n) ==
    IF n = 0 THEN {<<Genesis>>}
    ELSE {Append(t, NewBlock(parent, QC(t[n].view, n, TRUE), 1, view, GetLeader(view))) :
            t \in Chains(n - 1), parent \in {n, GenesisHash}, view \in 1..MaxRuleView}

\* The replica that holds the blocks of held, stored in the order of their
\* hashes, and is locked on the block locked.
RECURSIVE Holding(_, _, _)
Holding(c, held, h) ==
    IF h > Len(c.blocks) THEN c
    ELSE Holding(IF h \in held THEN storeUnsafe(c, h) ELSE c, held, h + 1)
Locked(c, locked) == Rest(persistLock([c EXCEPT !.bLock = locked]))

\* One replica that holds the chain but for at most one block of it (which
\* Fetch may find), locked on any block it holds.
InitRules ==
    /\ honest = {1}
    /\ blocks \in Chains(MaxChain)
    /\ \E rules \in {"chained", "simple"}, missing \in 1..(MaxChain + 1), locked \in 1..(MaxChain + 1) :
          /\ locked = GenesisHash \/ locked # missing
          /\ replica = [r \in honest |->
                Locked(Holding([Boot(honest, rules, "synchronizer")[r] EXCEPT !.blocks = blocks],
                               (1..(MaxChain + 1)) \ ({missing} \ {GenesisHash}), 2),
                       locked)]
    /\ budget = 0
    /\ top = MaxView
    /\ wire = {}
    /\ ComponentsAtRest

NextRules ==
    \/ CallChainedVoteRule
    \/ CallChainedCommitRule
    \/ CallSimpleVoteRule
    \/ CallSimpleCommitRule

SpecRules == InitRules /\ [][NextRules]_vars

\* Four replicas on a timely network; replica 1, the leader of view 1, is
\* Byzantine, and its blocks are of any shape a proposal can have.
InitForge ==
    /\ honest = {2, 3, 4}
    /\ \E rules \in {"chained", "simple"}, loadFail \in {"none", "synchronizer"} :
            replica = Boot(honest, rules, loadFail)
    /\ blocks = <<Genesis>>
    /\ budget = 0
    /\ top = MaxForgeView
    /\ wire = {}
    /\ ComponentsAtRest

NextForge ==
    \/ ForgeBlock
    \/ TimelyStart
    \/ TimelyProposal
    \/ ForgedProposal
    \/ TimelyNewView

SpecForge == InitForge /\ [][NextForge]_vars

\* One replica that is handed proposals of longer chains; the process may die
\* and be started again, and writes to its stores may fail.  No timer fires.
InitPrune ==
    /\ honest = {1}
    /\ \E rules \in {"chained", "simple"} : replica = Boot(honest, rules, "none")
    /\ blocks = <<Genesis>>
    /\ budget = MaxFaults
    /\ top = MaxPruneView
    /\ wire = {}
    /\ ComponentsAtRest

NextPrune ==
    \/ CreateBlock
    \/ StartReplica
    \/ DeliverProposal
    \/ Crash
    \/ Restart

SpecPrune == InitPrune /\ [][NextPrune]_vars

NextNet ==
    \/ CreateBlock
    \/ TimelyStart
    \/ TimelyProposal
    \/ TimelyNewView

SpecNet == InitNet /\ [][NextNet]_vars

\* ------------------------------------------------------------- the claims

\* a is b or an ancestor of b along the parent links.
RECURSIVE IsAncestor(_, _)
IsAncestor(a, b) ==
    \/ a = b
    \/ /\ b # ZeroHash
       /\ blocks[b].parent # ZeroHash
       /\ IsAncestor(a, blocks[b].parent)

Executed(r) == {replica[r].executed[i] : i \in 1..Len(replica[r].executed)}
StrictlyIncreasing(seq) == \A i \in 1..(Len(seq) - 1) : seq[i] < seq[i + 1]
NoDuplicates(seq) == \A i, j \in 1..Len(seq) : i # j => seq[i] # seq[j]
\* Replica r with the hash table, for Extends.
Local(r) == [replica[r] EXCEPT !.blocks = blocks]

\* C1: of any two blocks that honest replicas have passed to Executor.Exec, one is
\* an ancestor of the other: all committed blocks lie on a single chain.
C1_SingleChain ==
    \A r1 \in honest, r2 \in honest :
        \A b1 \in Executed(r1), b2 \in Executed(r2) :
            IsAncestor(b1, b2) \/ IsAncestor(b2, b1)

\* C2: the views of the votes a replica sends are strictly increasing over the
\* whole trace, crashes and restarts included.
C2_VoteViewsIncrease ==
    \A r \in honest :
        StrictlyIncreasing([i \in 1..Len(replica[r].sentVotes) |-> replica[r].sentVotes[i].view])

\* C3: the last_vote a replica acts on never decreases, whether OnPropose,
\* StopVoting or the reload after a restart changes it.
C3_LastVoteMonotone ==
    [][\A r \in honest : replica'[r].lastVote >= replica[r].lastVote]_vars

\* C4: when a vote for view v leaves the replica, the state store holds
\* last_vote >= v.
C4_PersistBeforeVote ==
    [][\A r \in honest :
         Len(replica'[r].sentVotes) > Len(replica[r].sentVotes)
         => replica'[r].ssLastVote >= replica'[r].sentVotes[Len(replica'[r].sentVotes)].view]_vars

\* C5: over the whole trace Executor.Exec runs exactly once for each block of
\* the parent chain that leads from the previously committed block to the
\* committed one, parents first, and for no other block: the executed blocks
\* are, in order and without repetition, a parent chain that starts at genesis.
C5_ExecutedOnceInOrder ==
    \A r \in honest :
        /\ NoDuplicates(replica[r].executed)
        /\ \A i \in 1..Len(replica[r].executed) :
              blocks[replica[r].executed[i]].parent =
                  (IF i = 1 THEN GenesisHash ELSE replica[r].executed[i - 1])

\* C6: every block a replica commits extends the block it had committed just
\* before, and the executed blocks have strictly ascending views.
C6_CommitExtendsPrevious ==
    \A r \in honest :
        /\ \A i \in 1..Len(replica[r].commits) :
              Extends(Local(r), replica[r].commits[i].block, replica[r].commits[i].prev)
        /\ StrictlyIncreasing([i \in 1..Len(replica[r].executed) |->
                                  blocks[replica[r].executed[i]].view])

\* C7: a block one honest replica has committed is committed by every honest
\* replica in the end.  commitInner executes only blocks above the view of
\* bExec, so a replica that is to commit the block has executed it already or
\* has its bExec still below the block's view.
C7_CanStillAgree ==
    \A r1 \in honest, r2 \in honest :
        \A b \in Executed(r1) :
            b \in Executed(r2) \/ blocks[replica[r2].bExec].view < blocks[b].view

\* The blocks of the happy path: B1 on the genesis certificate, B2, B3, B4 each
\* on the certificate of the block before.
HappyBlock(n) ==
    IF n = 1 THEN NewBlock(GenesisHash, GenesisQC, 1, 1, GetLeader(1))
    ELSE NewBlock(n, QC(n - 1, n, TRUE), 1, n, GetLeader(n))
VotedFor(r, h) ==
    \E i \in 1..Len(replica[r].sentVotes) : replica[r].sentVotes[i].hash = h

\* C8: on fresh stores the leader of view 1 proposes B1 on the genesis
\* certificate and votes for it, and a replica that has processed B1, B2, B3
\* and B4 has executed B1 exactly once, holds committed_hash = B1.hash and
\* last_vote = 4.
C8_HappyPath ==
    \A r \in honest :
        /\ (r = GetLeader(1) /\ replica[r].status = "running" /\ replica[r].ssHighQC = EmptyQC)
            => \E h \in replica[r].proposed : blocks[h] = HappyBlock(1)
        /\ \A h \in replica[r].proposed : blocks[h] = HappyBlock(1) => VotedFor(r, h)
        /\ (/\ Len(blocks) >= 5
            /\ \A n \in 1..4 : blocks[n + 1] = HappyBlock(n) /\ VotedFor(r, n + 1))
            => /\ replica[r].executed = <<2>>
               /\ replica[r].ssCommitted = 2
               /\ replica[r].lastVote = 4

\* C9: in a run without a crash the views AdvanceView enters are strictly
\* increasing from the initial view 1, and the current view is the last of
\* them: the current view never decreases and no view is entered twice.
C9_ViewsIncrease ==
    \A r \in honest :
        replica[r].restarts = 0 /\ replica[r].status # "down"
        => /\ StrictlyIncreasing(<<1>> \o replica[r].entered)
           /\ replica[r].currentView = (<<1>> \o replica[r].entered)[Len(replica[r].entered) + 1]
\* C9 happens: a replica that never crashed has entered two views by AdvanceView.
C9_Witness ==
    \E r \in honest :
        replica[r].restarts = 0 /\ replica[r].status = "running" /\ Len(replica[r].entered) >= 2

\* C10: when AdvanceView returns, on any return path, high_qc.view and
\* high_tc.view are at most current_view.
C10_CertsNotAhead ==
    \A r \in honest :
        /\ replica[r].returned.qc <= replica[r].returned.view
        /\ replica[r].returned.tc <= replica[r].returned.view

\* The IDs of the timeout messages replica r holds for view v.
CollectedIDs(r, v) == {t[2] : t \in {x \in replica[r].timeouts : x[1] = v}}

\* C11: OnRemoteTimeout makes a timeout certificate for a view exactly when the
\* messages collected for it come from 2f+1 distinct IDs: every certificate made
\* rests on at least 2f+1 IDs, and no replica is left holding messages of 2f+1
\* IDs for a view without having made the certificate, however often a message
\* arrives again.
C11_TCAtQuorum ==
    \A r \in honest :
        /\ \A f \in replica[r].formed : Cardinality(f.ids) >= QuorumSize
        /\ \A v \in 1..MaxView : Cardinality(CollectedIDs(r, v)) < QuorumSize
\* C11 happens: one replica has made a certificate while another holds the
\* messages of 2f senders for the same view and has made none.
C11_Witness ==
    \E r1 \in honest, r2 \in honest, v \in 1..MaxView :
        /\ \E f \in replica[r1].formed : f.view = v
        /\ Cardinality(CollectedIDs(r2, v)) = QuorumSize - 1
        /\ \A f \in replica[r2].formed : f.view # v

\* C12: with the leader of view 1 silent, a replica that has made the timeout
\* certificate of view 1 has moved from view 1 directly to view 2 with
\* high_tc.view = 1 and, until it moves on, the genesis QC as high_qc, and holds
\* no block of view 1.
C12_TimeoutRecovery ==
    \A r \in honest :
        (\E f \in replica[r].formed : f.view = 1)
        => /\ replica[r].entered # <<>>
           /\ replica[r].entered[1] = 2
           /\ replica[r].highTC.view >= 1
           /\ Len(replica[r].entered) = 1 => replica[r].highQC = GenesisQC
           /\ \A h \in replica[r].store : blocks[h].view # 1

\* The block a block's certificate is for (none for no block), and whether the
\* rule called could get hold of a block: it was held, or Fetch answered.
QcBlock(h) == IF h = ZeroHash THEN ZeroHash ELSE blocks[h].qc.hash
Known(u, h) == h # ZeroHash /\ (h \in u.store \/ u.fetch)

\* C13: the chained VoteRule returns true exactly when the block p of the
\* proposal block's certificate is at hand and p.view > locked.view; it returns
\* false when p.view = locked.view, when p.view < locked.view and when p cannot
\* be had.
C13_ChainedVoteRule ==
    \A r \in honest :
        LET u == replica[r].ruled
            p == QcBlock(u.block)
        IN  u.rule = "ChainedVoteRule"
            => (u.ok <=> (Known(u, p) /\ blocks[p].view > blocks[u.locked].view))
\* C13 happens: the rule was called with p at hand and p.view = locked.view,
\* and returned false.
C13_Witness ==
    \E r \in honest :
        LET u == replica[r].ruled
            p == QcBlock(u.block)
        IN  /\ u.rule = "ChainedVoteRule"
            /\ Known(u, p)
            /\ blocks[p].view = blocks[u.locked].view
            /\ ~u.ok

\* C14: with b1, b2, b3 the blocks of the certificates down from the block, the
\* chained CommitRule returns b3 exactly when the three are at hand,
\* b1.parent = b2.hash and b2.parent = b3.hash; otherwise it returns none; it
\* returns no other block.
C14_ChainedCommitRule ==
    \A r \in honest :
        LET u == replica[r].ruled
            b1 == QcBlock(u.block)
            b2 == QcBlock(b1)
            b3 == QcBlock(b2)
        IN  u.rule = "ChainedCommitRule"
            => /\ u.result \in {ZeroHash, b3}
               /\ u.result # ZeroHash
                    <=> /\ Known(u, b1) /\ Known(u, b2) /\ Known(u, b3)
                        /\ blocks[b1].parent = b2
                        /\ blocks[b2].parent = b3
\* C14 happens: the rule returned a b3 that is not genesis.
C14_Witness ==
    \E r \in honest :
        /\ replica[r].ruled.rule = "ChainedCommitRule"
        /\ replica[r].ruled.result \notin {ZeroHash, GenesisHash}
        /\ replica[r].ruled.result = QcBlock(QcBlock(QcBlock(replica[r].ruled.block)))

\* C15: with p the block of the block's certificate and gp the block of p's,
\* the simple CommitRule returns gp exactly when the two are at hand,
\* p.parent = gp.hash and p.view = gp.view + 1; otherwise it returns none.
C15_SimpleCommitRule ==
    \A r \in honest :
        LET u == replica[r].ruled
            p == QcBlock(u.block)
            gp == QcBlock(p)
        IN  u.rule = "SimpleCommitRule"
            => /\ u.result \in {ZeroHash, gp}
               /\ u.result # ZeroHash
                    <=> /\ Known(u, p) /\ Known(u, gp)
                        /\ blocks[p].parent = gp
                        /\ blocks[p].view = blocks[gp].view + 1
\* C15 happens: the rule returned a gp that is not genesis.
C15_Witness ==
    \E r \in honest :
        LET u == replica[r].ruled
            p == QcBlock(u.block)
            gp == QcBlock(p)
        IN  /\ u.rule = "SimpleCommitRule"
            /\ u.result = gp
            /\ gp \notin {ZeroHash, GenesisHash}

\* The step is a ProposeMsg handled by r to the end without a vote leaving:
\* OnPropose has returned at one of its rejections.
ProposalDropped(r) ==
    /\ replica[r].status = "running"
    /\ replica'[r].status = "running"
    /\ replica'[r].sentVotes = replica[r].sentVotes
    /\ \E h \in Hashes \ {GenesisHash}, io \in {QuietIO} \cup Departures :
          \E id \in Senders(h) \ {r} :
              replica'[r] = Rest(OnPropose(Handle(r, io), id, h))
\* What a rejection is to leave alone.
Untouched(r) ==
    /\ replica'[r].store = replica[r].store
    /\ replica'[r].bLock = replica[r].bLock
    /\ replica'[r].bExec = replica[r].bExec
    /\ replica'[r].ssCommitted = replica[r].ssCommitted
    /\ replica'[r].lastVote = replica[r].lastVote
    /\ replica'[r].currentView = replica[r].currentView
    /\ replica'[r].highQC = replica[r].highQC
    /\ replica'[r].highTC = replica[r].highTC
    /\ replica'[r].proposed = replica[r].proposed
    /\ replica'[r].sentTimeouts = replica[r].sentTimeouts

\* C16: when OnPropose rejects a proposal the replica is as before: block store,
\* locked block, bExec, committed_hash, last_vote, current_view, high_qc and
\* high_tc are unchanged and no message has left.
C16_RejectLeavesState ==
    [][\A r \in honest : ProposalDropped(r) => Untouched(r)]_vars

\* C17: a replica whose SetLastVote has failed (its last_vote is ahead of the
\* state store's) sends no vote, neither for the proposal at hand nor later,
\* until the process has been started again.
C17_NoVoteAfterFailedWrite ==
    [][\A r \in honest :
         (/\ replica'[r].restarts = replica[r].restarts
          /\ replica'[r].lastVote > replica'[r].ssLastVote)
         => replica'[r].sentVotes = replica[r].sentVotes]_vars

\* C18: once commit has failed because an ancestor of the block was not to be
\* had, the replica has halted: it sends no vote, neither in the handler that
\* ran the commit nor later.
C18_HaltAfterChainGap ==
    [][\A r \in honest :
         replica'[r].chainGap => replica'[r].sentVotes = replica[r].sentVotes]_vars

\* C19: every block in the block store of an honest replica, genesis apart, has
\* a view above the view of the certificate it carries.
C19_ViewAboveCertificate ==
    \A r \in honest :
        \A h \in replica[r].store \ {GenesisHash} : blocks[h].view > blocks[h].qc.view

\* C20: when a vote for a block leaves a replica, the block's parent hash is
\* the hash of a block in the replica's block store.
C20_VoteOnKnownParent ==
    [][\A r \in honest :
         Len(replica'[r].sentVotes) > Len(replica[r].sentVotes)
         => blocks'[replica'[r].sentVotes[Len(replica'[r].sentVotes)].hash].parent
                \in replica'[r].store]_vars

\* a is b or an ancestor of b along the parent links of the table.
RECURSIVE OnBranch(_, _, _)
OnBranch(table, a, b) ==
    \/ a = b
    \/ /\ b \in 1..Len(table)
       /\ table[b].parent \in 1..Len(table)
       /\ OnBranch(table, a, table[b].parent)
\* The blocks the commit of this step has passed to ForkHandler.Fork.
NewlyForked(r) ==
    {replica'[r].forked[i] : i \in (Len(replica[r].forked) + 1)..Len(replica'[r].forked)}
\* The block the commit of this step has committed.
JustCommitted(r) == replica'[r].commits[Len(replica'[r].commits)].block

\* C21: the PruneToHeight(h) of a commit returns exactly the stored blocks with
\* a view in (prune_watermark, h] that are not the committed block or one of
\* its ancestors.
C21_ForkedBlocks ==
    [][\A r \in honest :
         (/\ Len(replica'[r].commits) = Len(replica[r].commits) + 1
          /\ replica[r].status = "running" /\ replica'[r].status = "running")
         => NewlyForked(r) =
                {h \in replica'[r].store :
                    /\ blocks'[h].view > replica[r].pruneHeight
                    /\ blocks'[h].view <= blocks'[JustCommitted(r)].view
                    /\ ~OnBranch(blocks', h, JustCommitted(r))}]_vars

\* C22: no block is handed to ForkHandler.Fork twice by one replica, and the
\* prune watermark of a running replica never decreases.
C22_ForkedOnce ==
    [][\A r \in honest :
         /\ NoDuplicates(replica'[r].forked)
         /\ (replica[r].status = "running" /\ replica'[r].status = "running")
                => replica'[r].pruneHeight >= replica[r].pruneHeight]_vars

\* ---------------------------------------- the block store under threads

\* badgerBlockChain.Get, Store and PruneToHeight and persistentConsensusBase.commit
\* as the threads of one process run them.  A step is what a thread does
\* between two points at which another thread can run: the body of a critical
\* section of chain.mut is one step, the Fetch RPC is open between two steps.
\*   mut, csMut      who holds chain.mut and cs.mut (0: nobody)
\*   stored          the hashes of the blocks in the database
\*   pendingFetch    per hash, the registered cancel function (0: no entry)
\*   handles         every cancel function made so far, and how often it was called
\*   thread          per thread: the call it is in, where it is, its hash, the
\*                   cancel function it made and what Fetch returned
Threads == 1..MaxThreads
FetchHashes == 1..MaxFetchHashes
IdleThread == [op |-> "none", pc |-> "idle", hash |-> 0, handle |-> 0, ok |-> FALSE]

Fetching(t) == chain.thread[t].pc = "fetch"

\* The thread is back from Get: a plain caller is done, commitInner goes on.
getReturns(th, ok) ==
    IF th.op = "commit" THEN [th EXCEPT !.pc = "unlock", !.ok = ok] ELSE IdleThread

\* cancel(): the call is counted.
cancel(handles, id) == [handles EXCEPT ![id].invoked = @ + 1]

\* Get, first critical section: the block is there, or a cancel function is
\* made and registered under the hash and the mutex is released for the Fetch.
getLocal(ch, t) ==
    LET th == ch.thread[t] IN
    IF th.hash \in ch.stored
    THEN [ch EXCEPT !.thread[t] = getReturns(th, TRUE)]
    ELSE [ch EXCEPT !.handles = Append(@, [hash |-> th.hash, invoked |-> 0]),
                    !.pendingFetch[th.hash] = Len(ch.handles) + 1,
                    !.thread[t] = [th EXCEPT !.pc = "fetch", !.handle = Len(ch.handles) + 1]]

\* Get, second critical section, after Fetch has returned th.ok.
getFetched(ch, t) ==
    LET th == ch.thread[t] IN
    IF th.ok
    THEN [ch EXCEPT !.pendingFetch[th.hash] = 0,
                    !.stored = @ \cup {th.hash},
                    !.thread[t] = getReturns(th, TRUE)]
    ELSE [ch EXCEPT !.pendingFetch[th.hash] = 0,
                    !.thread[t] = getReturns(th, th.hash \in ch.stored)]

\* Store: the block is written, and a registered cancel function is called
\* and taken out of the map.
chainStore(ch, hash) ==
    IF ch.pendingFetch[hash] = 0
    THEN [ch EXCEPT !.stored = @ \cup {hash}]
    ELSE [ch EXCEPT !.stored = @ \cup {hash},
                    !.handles = cancel(@, ch.pendingFetch[hash]),
                    !.pendingFetch[hash] = 0]

Step(ch) ==
    /\ chain' = ch
    /\ UNCHANGED <<consensus, statedb, txpool, trie>>

\* A thread calls Get(hash).
CallGet ==
    \E t \in Threads, hash \in FetchHashes :
        /\ chain.thread[t].pc = "idle"
        /\ Step([chain EXCEPT !.thread[t] = [IdleThread EXCEPT !.op = "Get", !.pc = "lock", !.hash = hash]])

\* A thread calls commit(block): it takes cs.mut and commitInner calls
\* Get(block.Parent()).
CallCommit ==
    \E t \in Threads, hash \in FetchHashes :
        /\ chain.thread[t].pc = "idle"
        /\ chain.csMut = 0
        /\ Step([chain EXCEPT !.csMut = t,
                              !.thread[t] = [IdleThread EXCEPT !.op = "commit", !.pc = "lock", !.hash = hash]])

GetLocal ==
    \E t \in Threads :
        /\ chain.thread[t].pc = "lock"
        /\ chain.mut = 0
        /\ Len(getLocal(chain, t).handles) <= MaxHandles
        /\ Step(getLocal(chain, t))

\* configuration.Fetch returns to the thread, with the block or without.
FetchReturns ==
    \E t \in Threads, ok \in BOOLEAN :
        /\ Fetching(t)
        /\ Step([chain EXCEPT !.thread[t].pc = "relock", !.thread[t].ok = ok])

GetFetched ==
    \E t \in Threads :
        /\ chain.thread[t].pc = "relock"
        /\ chain.mut = 0
        /\ Step(getFetched(chain, t))

\* A thread calls Store(block); the database write succeeds or not.
CallStore ==
    \E t \in Threads, hash \in FetchHashes, written \in BOOLEAN :
        /\ chain.thread[t].pc = "idle"
        /\ chain.mut = 0
        /\ Step(IF written THEN chainStore(chain, hash) ELSE chain)

\* commit, after commitInner: cs.mut is released; with an error commit
\* returns, otherwise it goes on to PruneToHeight.
CommitUnlock ==
    \E t \in Threads :
        /\ chain.thread[t].pc = "unlock"
        /\ Step([chain EXCEPT !.csMut = 0,
                              !.thread[t] = IF chain.thread[t].ok
                                            THEN [chain.thread[t] EXCEPT !.pc = "prune"]
                                            ELSE IdleThread])

\* PruneToHeight takes chain.mut ...
PruneLock ==
    \E t \in Threads :
        /\ chain.thread[t].pc = "prune"
        /\ chain.mut = 0
        /\ Step([chain EXCEPT !.mut = t, !.thread[t].pc = "committed"])

\* ... calls consensus.CommittedBlock(), which takes and releases cs.mut,
\* and returns, releasing chain.mut.
PruneCommitted ==
    \E t \in Threads :
        /\ chain.thread[t].pc = "committed"
        /\ chain.csMut = 0
        /\ Step([chain EXCEPT !.mut = 0, !.thread[t] = IdleThread])

ConsensusAtRest ==
    /\ replica = <<>>
    /\ blocks = <<Genesis>>
    /\ honest = {}
    /\ budget = 0
    /\ top = 0
    /\ wire = {}

InitFetch ==
    /\ ConsensusAtRest
    /\ trie = NoTrie
    /\ statedb = NoStateDB
    /\ txpool = NoTxPool
    /\ chain = [NoChain EXCEPT !.pendingFetch = [h \in FetchHashes |-> 0],
                               !.thread = [t \in Threads |-> IdleThread]]

NextFetch ==
    \/ CallGet
    \/ CallCommit
    \/ GetLocal
    \/ FetchReturns
    \/ GetFetched
    \/ CallStore
    \/ CommitUnlock
    \/ PruneLock
    \/ PruneCommitted

SpecFetch == InitFetch /\ [][NextFetch]_vars

\* C23: at most one Fetch is outstanding per block hash.
C23_OneFetchPerHash ==
    \A hash \in FetchHashes :
        Cardinality({t \in DOMAIN chain.thread : Fetching(t) /\ chain.thread[t].hash = hash}) <= 1

\* C24: a cancel function that is no longer registered in pendingFetch has been
\* called exactly once, and none is called twice.
C24_HandleInvokedOnce ==
    \A id \in DOMAIN chain.handles :
        /\ chain.handles[id].invoked <= 1
        /\ chain.pendingFetch[chain.handles[id].hash] # id => chain.handles[id].invoked = 1

\* C25: no thread is in configuration.Fetch while it holds chain.mut or cs.mut.
C25_FetchWithoutLock ==
    \A t \in DOMAIN chain.thread :
        Fetching(t) => chain.mut # t /\ chain.csMut # t

\* -------------------------------------------------------------- StateDB

\* InMemoryStateDB and TrieStateDB.  An address is a number whose last byte is
\* its remainder by AddressSpace; a hash is modelled by what it is the hash of
\* (the Keccak of code by the code, the root of a trie by the trie's content),
\* the zero hash by the empty sequence or the empty content.
\*   impl            "memory" or "trie"
\*   accounts        s.accounts, or the account entries of stateTrie
\*   code            s.code (memory)
\*   codes           the code entries "code:<hash>" of stateTrie (trie)
\*   storage         s.storage, or the content of the storage tries
\*   tries           the addresses that have an entry in storageTries (trie)
\*   journal         s.journal
\*   snapshots       s.snapshots: account maps (memory), journal lengths (trie)
Addrs == {AddressSpace, AddressSpace + 1, 2 * AddressSpace}
StorageKeys == 1..MaxStorageKeys
Words == 0..MaxWord
Codes == {<<>>, <<0>>}
NoStorage == [k \in StorageKeys |-> 0]
Keccak(code) == code
EmptyAccount ==
    [exists |-> FALSE, balance |-> 0, nonce |-> 0, codeHash |-> <<>>, storageRoot |-> NoStorage]

NewStateDB(impl) ==
    [impl |-> impl, accounts |-> [a \in Addrs |-> EmptyAccount], code |-> [a \in Addrs |-> <<>>],
     codes |-> {}, storage |-> [a \in Addrs |-> NoStorage], tries |-> {},
     journal |-> <<>>, snapshots |-> <<>>]

\* A journal entry: balanceChange, nonceChange, codeChange, storageChange.
Change(kind, account, key, prev, prevCode) ==
    [kind |-> kind, account |-> account, key |-> key, prev |-> prev, prevCode |-> prevCode]

\* GetAccount: the account, or the empty account when there is none.
GetAccount(s, addr) == [s.accounts[addr] EXCEPT !.exists = TRUE]
SetAccount(s, addr, account) == [s EXCEPT !.accounts[addr] = [account EXCEPT !.exists = TRUE]]
Exist(s, addr) == s.accounts[addr].exists
GetBalance(s, addr) == GetAccount(s, addr).balance
GetNonce(s, addr) == GetAccount(s, addr).nonce

journalled(s, change) == [s EXCEPT !.journal = Append(@, change)]

SetBalance(s, addr, balance) ==
    SetAccount(journalled(s, Change("balance", addr, 0, GetBalance(s, addr), <<>>)), addr,
               [GetAccount(s, addr) EXCEPT !.balance = balance])
AddBalance(s, addr, amount) ==
    SetAccount(journalled(s, Change("balance", addr, 0, GetBalance(s, addr), <<>>)), addr,
               [GetAccount(s, addr) EXCEPT !.balance = @ + amount])
SubBalance(s, addr, amount) ==
    SetAccount(journalled(s, Change("balance", addr, 0, GetBalance(s, addr), <<>>)), addr,
               [GetAccount(s, addr) EXCEPT !.balance = @ - amount])
SetNonce(s, addr, nonce) ==
    SetAccount(journalled(s, Change("nonce", addr, 0, GetNonce(s, addr), <<>>)), addr,
               [GetAccount(s, addr) EXCEPT !.nonce = nonce])
CreateAccount(s, addr) == SetAccount(s, addr, EmptyAccount)

\* GetCode
memGetCode(s, addr) == s.code[addr]
trieGetCode(s, addr) ==
    IF GetAccount(s, addr).codeHash = <<>> THEN <<>>
    ELSE IF GetAccount(s, addr).codeHash \in s.codes THEN GetAccount(s, addr).codeHash
    ELSE <<>>
GetCode(s, addr) == IF s.impl = "trie" THEN trieGetCode(s, addr) ELSE memGetCode(s, addr)

\* SetCode
memSetCode(s, addr, code) ==
    [journalled(s, Change("code", addr, 0, 0, s.code[addr])) EXCEPT !.code[addr] = code]
trieSetCode(s, addr, code) ==
    IF code = <<>>
    THEN SetAccount(journalled(s, Change("code", addr, 0, 0, trieGetCode(s, addr))), addr,
                    [GetAccount(s, addr) EXCEPT !.codeHash = <<>>])
    ELSE SetAccount([journalled(s, Change("code", addr, 0, 0, trieGetCode(s, addr)))
                        EXCEPT !.codes = @ \cup {Keccak(code)}], addr,
                    [GetAccount(s, addr) EXCEPT !.codeHash = Keccak(code)])
SetCode(s, addr, code) ==
    IF s.impl = "trie" THEN trieSetCode(s, addr, code) ELSE memSetCode(s, addr, code)

\* GetState
memGetState(s, addr, key) == s.storage[addr][key]
trieGetState(s, addr, key) == IF addr \in s.tries THEN s.storage[addr][key] ELSE 0
GetState(s, addr, key) ==
    IF s.impl = "trie" THEN trieGetState(s, addr, key) ELSE memGetState(s, addr, key)

\* SetState.  TrieStateDB: the storage trie is made when there is none, the
\* zero value deletes the key, and the account gets the trie's root.
memSetState(s, addr, key, value) ==
    [journalled(s, Change("storage", addr, key, memGetState(s, addr, key), <<>>))
        EXCEPT !.storage[addr][key] = value]
trieStorageRoot(s, addr) ==
    SetAccount(s, addr, [GetAccount(s, addr) EXCEPT !.storageRoot = s.storage[addr]])
trieSetState(s, addr, key, value) ==
    trieStorageRoot(
        [journalled(s, Change("storage", addr, key, trieGetState(s, addr, key), <<>>))
            EXCEPT !.tries = @ \cup {addr}, !.storage[addr][key] = value], addr)
SetState(s, addr, key, value) ==
    IF s.impl = "trie" THEN trieSetState(s, addr, key, value) ELSE memSetState(s, addr, key, value)

\* Snapshot: the StateDB after the call; the id returned is Len(snapshots) - 1.
Snapshot(s) ==
    IF s.impl = "trie" THEN [s EXCEPT !.snapshots = Append(@, Len(s.journal))]
    ELSE [s EXCEPT !.snapshots = Append(@, s.accounts)]
SnapshotID(s) == Len(s.snapshots) - 1

\* trieBalanceChange.revert, trieNonceChange.revert, trieCodeChange.revert,
\* trieStorageChange.revert
trieRevertChange(s, ch) ==
    IF ch.kind = "balance"
    THEN SetAccount(s, ch.account, [GetAccount(s, ch.account) EXCEPT !.balance = ch.prev])
    ELSE IF ch.kind = "nonce"
    THEN SetAccount(s, ch.account, [GetAccount(s, ch.account) EXCEPT !.nonce = ch.prev])
    ELSE IF ch.kind = "code" THEN trieSetCode(s, ch.account, ch.prevCode)
    ELSE trieSetState(s, ch.account, ch.key, ch.prev)

\* TrieStateDB.RevertToSnapshot: the loop from entry i down to journalPos.
RECURSIVE trieRevertFrom(_, _, _)
trieRevertFrom(s, i, journalPos) ==
    IF i <= journalPos THEN s
    ELSE trieRevertFrom(trieRevertChange(s, s.journal[i]), i - 1, journalPos)

trieRevertToSnapshot(s, id) ==
    [trieRevertFrom(s, Len(s.journal), s.snapshots[id + 1])
        EXCEPT !.journal = SubSeq(s.journal, 1, s.snapshots[id + 1]),
               !.snapshots = SubSeq(s.snapshots, 1, id)]
memRevertToSnapshot(s, id) ==
    [s EXCEPT !.accounts = s.snapshots[id + 1],
              !.snapshots = SubSeq(s.snapshots, 1, id),
              !.journal = <<>>]
RevertToSnapshot(s, id) ==
    IF id < 0 \/ id >= Len(s.snapshots) THEN s
    ELSE IF s.impl = "trie" THEN trieRevertToSnapshot(s, id) ELSE memRevertToSnapshot(s, id)

\* TrieStateDB.Commit: every address with a storage trie gets its root.
RECURSIVE trieCommitRoots(_, _)
trieCommitRoots(s, addrs) ==
    IF addrs = {} THEN s
    ELSE LET addr == CHOOSE a \in addrs : TRUE IN
         trieCommitRoots(trieStorageRoot(s, addr), addrs \ {addr})
StateCommit(s) ==
    IF s.impl = "trie"
    THEN [trieCommitRoots(s, s.tries) EXCEPT !.journal = <<>>, !.snapshots = <<>>]
    ELSE [s EXCEPT !.journal = <<>>]

\* calculateStateRoot mixes the addresses, balances and nonces of the accounts;
\* stateTrie.Root() is the hash of the trie's entries.
GetStateRoot(s) ==
    IF s.impl = "trie"
    THEN [accounts |-> {<<a, s.accounts[a]>> : a \in {x \in Addrs : Exist(s, x)}}, codes |-> s.codes]
    ELSE [accounts |-> {<<a, s.accounts[a].balance, s.accounts[a].nonce % AddressSpace>> :
                            a \in {x \in Addrs : Exist(s, x)}},
          codes |-> {}]

\* What the getters of a StateDB show.
Observed(s) ==
    [accounts |-> s.accounts,
     code |-> [a \in Addrs |-> GetCode(s, a)],
     storage |-> [a \in Addrs |-> [k \in StorageKeys |-> GetState(s, a, k)]],
     root |-> GetStateRoot(s)]

\* The calls on one StateDB.  marks holds, per snapshot id handed out since the
\* last Commit and not yet reverted over, what the StateDB showed then; stale
\* says that no call but RevertToSnapshot was made since the last Commit, and
\* issued how many ids had been handed out before it.
NoMark == [live |-> FALSE, obs |-> Observed(NewStateDB("memory"))]
NoCall == [op |-> "none", id |-> 0, live |-> FALSE, mark |-> NoMark.obs,
           stale |-> FALSE, before |-> NoMark.obs]
SnapshotIDs == 0..(MaxSnapshots - 1)

Called(s, marks, stale, issued, last) ==
    /\ statedb.calls < MaxCalls
    /\ Len(s.journal) <= MaxJournal
    /\ statedb' = [db |-> s, marks |-> marks, stale |-> stale, issued |-> issued,
                   last |-> last, calls |-> statedb.calls + 1]
    /\ UNCHANGED <<consensus, chain, txpool, trie>>

Mutated(s, op) ==
    Called(s, statedb.marks, FALSE, statedb.issued, [NoCall EXCEPT !.op = op])

CallSetBalance ==
    \E addr \in Addrs, balance \in 0..MaxAmount : Mutated(SetBalance(statedb.db, addr, balance), "SetBalance")
CallAddBalance ==
    \E addr \in Addrs, amount \in 1..MaxAmount : Mutated(AddBalance(statedb.db, addr, amount), "AddBalance")
CallSubBalance ==
    \E addr \in Addrs, amount \in 1..MaxAmount : Mutated(SubBalance(statedb.db, addr, amount), "SubBalance")
CallSetNonce ==
    \E addr \in Addrs, nonce \in 0..1 : Mutated(SetNonce(statedb.db, addr, nonce), "SetNonce")
CallSetCode ==
    \E addr \in Addrs, code \in Codes : Mutated(SetCode(statedb.db, addr, code), "SetCode")
CallSetState ==
    \E addr \in Addrs, key \in StorageKeys, value \in Words :
        Mutated(SetState(statedb.db, addr, key, value), "SetState")
CallCreateAccount ==
    \E addr \in Addrs : Mutated(CreateAccount(statedb.db, addr), "CreateAccount")

CallSnapshot ==
    /\ Len(statedb.db.snapshots) < MaxSnapshots
    /\ Called(Snapshot(statedb.db),
              [statedb.marks EXCEPT ![Len(statedb.db.snapshots)] =
                    [live |-> TRUE, obs |-> Observed(statedb.db)]],
              FALSE, statedb.issued, [NoCall EXCEPT !.op = "Snapshot"])

CallRevertToSnapshot ==
    \E id \in SnapshotIDs :
        Called(RevertToSnapshot(statedb.db, id),
               [i \in SnapshotIDs |-> IF i >= id THEN NoMark ELSE statedb.marks[i]],
               statedb.stale, statedb.issued,
               [op |-> "RevertToSnapshot", id |-> id, live |-> statedb.marks[id].live,
                mark |-> statedb.marks[id].obs, stale |-> statedb.stale /\ id < statedb.issued,
                before |-> Observed(statedb.db)])

CallStateCommit ==
    Called(StateCommit(statedb.db), [i \in SnapshotIDs |-> NoMark], TRUE,
           Len(statedb.db.snapshots), [NoCall EXCEPT !.op = "Commit"])

InitState ==
    /\ ConsensusAtRest
    /\ trie = NoTrie
    /\ chain = NoChain
    /\ txpool = NoTxPool
    /\ \E impl \in {"memory", "trie"} :
          statedb = [db |-> NewStateDB(impl), marks |-> [i \in SnapshotIDs |-> NoMark],
                     stale |-> FALSE, issued |-> 0, last |-> NoCall, calls |-> 0]

NextState ==
    \/ CallSetBalance
    \/ CallAddBalance
    \/ CallSubBalance
    \/ CallSetNonce
    \/ CallSetCode
    \/ CallSetState
    \/ CallCreateAccount
    \/ CallSnapshot
    \/ CallRevertToSnapshot
    \/ CallStateCommit

SpecState == InitState /\ [][NextState]_vars

\* C26: RevertToSnapshot(id) brings back the accounts, code, storage and state
\* root that the StateDB had when Snapshot() returned id.
C26_RevertRestores ==
    (statedb.last.op = "RevertToSnapshot" /\ statedb.last.live)
        => Observed(statedb.db) = statedb.last.mark

\* C27: after Commit the journal and the snapshot stack are empty, and a
\* RevertToSnapshot with an id from before the Commit changes nothing.
C27_CommitClears ==
    /\ statedb.last.op = "Commit"
            => statedb.db.journal = <<>> /\ statedb.db.snapshots = <<>>
    /\ (statedb.last.op = "RevertToSnapshot" /\ statedb.last.stale)
            => Observed(statedb.db) = statedb.last.before

\* ------------------------------------------------------------- Executor

\* A transaction: its sender (getSender derives it from the hash), to (NoAddr
\* for a contract creation), nonce, gas price, gas limit, value and data.
NoAddr == 0
Coinbase == 2 * AddressSpace

\* uint64 subtraction, which wraps; Wrapped stands for 2^64, above any gas a
\* program of these runs can use.  The int64 of the wrapped difference is the
\* difference.
Uint64Sub(a, b) == IF a >= b THEN a - b ELSE Wrapped - (b - a)
Int64OfSub(a, b) == a - b

\* leftPad32 of the bytes of a stack value: the value itself below 2^256.
Pop(stack, n) == SubSeq(stack, 1, Len(stack) - n)
Top(stack, n) == stack[Len(stack) - n + 1]

\* The machine after an instruction that does not return: pc++, then the
\* stack limit.
vmNext(m) ==
    IF Len(m.stack) > StackLimit THEN [m EXCEPT !.halted = TRUE, !.err = "stack overflow"]
    ELSE [m EXCEPT !.pc = @ + 1]
vmFail(m, err) == [m EXCEPT !.halted = TRUE, !.err = err]
vmBinary(m, result) ==
    IF Len(m.stack) < 2 THEN vmFail(m, "stack underflow")
    ELSE vmNext([m EXCEPT !.stack = Append(Pop(m.stack, 2), result)])

\* One turn of the loop of executeSimpleBytecode on the machine m, whose gas
\* already holds the cost of the instruction.
vmStep(m, contractAddr, code, opcode) ==
    IF opcode = 0 THEN [m EXCEPT !.halted = TRUE]
    ELSE IF opcode = 1 THEN vmBinary(m, IF Len(m.stack) < 2 THEN 0 ELSE Top(m.stack, 1) + Top(m.stack, 2))
    ELSE IF opcode = 2 THEN vmBinary(m, IF Len(m.stack) < 2 THEN 0 ELSE Top(m.stack, 1) * Top(m.stack, 2))
    ELSE IF opcode = 3 THEN vmBinary(m, IF Len(m.stack) < 2 THEN 0 ELSE Top(m.stack, 1) - Top(m.stack, 2))
    ELSE IF opcode = 82
    THEN IF Len(m.stack) < 2 THEN vmFail(m, "stack underflow")
         ELSE vmNext([m EXCEPT !.stack = Pop(m.stack, 2),
                               !.memory = IF @ < Top(m.stack, 1) + 32 THEN Top(m.stack, 1) + 32 ELSE @])
    ELSE IF opcode = 84
    THEN IF Len(m.stack) < 1 THEN vmFail(m, "stack underflow")
         ELSE vmNext([m EXCEPT !.stack = Append(Pop(m.stack, 1), GetState(m.s, contractAddr, Top(m.stack, 1))),
                               !.gasUsed = @ + GasSload])
    ELSE IF opcode = 85
    THEN IF Len(m.stack) < 2 THEN vmFail(m, "stack underflow")
         ELSE vmNext([m EXCEPT !.stack = Pop(m.stack, 2),
                               !.s = SetState(m.s, contractAddr, Top(m.stack, 1), Top(m.stack, 2)),
                               !.gasUsed = @ + GasSstore])
    ELSE IF opcode = 96
    THEN IF m.pc >= Len(code) THEN vmFail(m, "incomplete PUSH1")
         ELSE vmNext([m EXCEPT !.stack = Append(@, code[m.pc + 1]), !.pc = @ + 1])
    ELSE IF opcode = 97
    THEN IF m.pc + 1 >= Len(code) THEN vmFail(m, "incomplete PUSH2")
         ELSE vmNext([m EXCEPT !.stack = Append(@, code[m.pc + 1] * AddressSpace + code[m.pc + 2]),
                               !.pc = @ + 2])
    ELSE IF opcode = 128
    THEN IF Len(m.stack) < 1 THEN vmFail(m, "stack underflow")
         ELSE vmNext([m EXCEPT !.stack = Append(@, Top(m.stack, 1))])
    ELSE IF opcode \in {243, 253}
    THEN IF Len(m.stack) < 2 THEN vmFail(m, "stack underflow")
         ELSE IF Top(m.stack, 1) + Top(m.stack, 2) > m.memory THEN vmFail(m, "memory out of bounds")
         ELSE IF opcode = 253 THEN vmFail(m, "execution reverted")
         ELSE [m EXCEPT !.halted = TRUE]
    ELSE vmNext(m)

\* executeSimpleBytecode: the loop; pc counts from 1.
RECURSIVE vmRun(_, _, _, _)
vmRun(m, contractAddr, code, gasLimit) ==
    IF m.halted \/ m.pc > Len(code) \/ m.gasUsed >= gasLimit THEN m
    ELSE vmRun(vmStep([m EXCEPT !.gasUsed = @ + GasOp], contractAddr, code, code[m.pc]),
               contractAddr, code, gasLimit)

\* executeSimpleBytecode: the StateDB after the call, the gas used and the error.
executeSimpleBytecode(s, contractAddr, code, gasLimit) ==
    vmRun([s |-> s, pc |-> 1, gasUsed |-> 0, stack |-> <<>>, memory |-> 0,
           halted |-> FALSE, err |-> ""], contractAddr, code, gasLimit)

\* "Transfer value if any"
transferValue(s, caller, contract, value) ==
    IF value > 0 THEN AddBalance(SubBalance(s, caller, value), contract, value) ELSE s

Outcome(s, gasUsed, err) == [s |-> s, gasUsed |-> gasUsed, err |-> err]

\* ExecuteContract with isCreate, after the constructor has run and left m
createDeployed(m, caller, contract, code, value, gasUsed) ==
    IF m.err # "" THEN Outcome(m.s, gasUsed + m.gasUsed, m.err)
    ELSE Outcome(transferValue(SetCode(m.s, contract, code), caller, contract, value),
                 gasUsed + m.gasUsed, "")

\* ExecuteContract with isCreate
executeCreate(s, caller, contract, input, value, gasLimit) ==
    IF Len(input) > 0
    THEN createDeployed(
            executeSimpleBytecode(s, contract, input,
                Uint64Sub(gasLimit, GasBase + GasCreate + Len(input) * GasCodeByte)),
            caller, contract, input, value, GasBase + GasCreate + Len(input) * GasCodeByte)
    ELSE Outcome(transferValue(s, caller, contract, value), GasBase + GasCreate, "")

\* ExecuteContract of a call, after the code has run and left m
callExecuted(m, caller, contract, value) ==
    Outcome(transferValue(m.s, caller, contract, value), GasBase + m.gasUsed, m.err)

\* ExecuteContract of a call
executeCall(s, caller, contract, value, gasLimit) ==
    IF GetCode(s, contract) = <<>>
    THEN Outcome(transferValue(s, caller, contract, value), GasBase, "")
    ELSE callExecuted(executeSimpleBytecode(s, contract, GetCode(s, contract),
                                            Uint64Sub(gasLimit, GasBase)),
                      caller, contract, value)

generateContractAddress(from, nonce) ==
    (from \div AddressSpace) * AddressSpace + (nonce % AddressSpace)

\* CreateContractWithEVM
createContract(s, tx) ==
    executeCreate(CreateAccount(s, generateContractAddress(tx.from, GetNonce(s, tx.from) - 1)),
                  tx.from, generateContractAddress(tx.from, GetNonce(s, tx.from) - 1),
                  tx.data, tx.value, tx.gasLimit)

\* CallContractWithEVM
callContract(s, tx) == executeCall(s, tx.from, tx.to, tx.value, tx.gasLimit)

\* validateTransaction: the error, or "".
validateTransaction(s, tx) ==
    IF tx.gasPrice < 0 \/ tx.value < 0 \/ tx.gasLimit = 0 THEN "invalid"
    ELSE IF tx.nonce # GetNonce(s, tx.from) THEN "invalid nonce"
    ELSE IF GetBalance(s, tx.from) < tx.gasPrice * tx.gasLimit + tx.value THEN "insufficient balance"
    ELSE IF tx.gasPrice < BaseFee THEN "gas price too low"
    ELSE ""

Receipt(status, gasUsed) == [status |-> status, gasUsed |-> gasUsed]

\* applyTransaction, after createContract or callContract has returned o:
\* the refund, the payment to the coinbase and the receipt.
applySettle(o, tx) ==
    [s |-> AddBalance(AddBalance(o.s, tx.from, tx.gasPrice * Int64OfSub(tx.gasLimit, o.gasUsed)),
                      Coinbase, tx.gasPrice * o.gasUsed),
     receipt |-> Receipt(IF o.err = "" THEN 1 ELSE 0, o.gasUsed),
     err |-> "", execErr |-> o.err]

\* applyTransaction, after the gas was deducted and the nonce incremented
applyExecute(s, tx) ==
    applySettle(IF tx.to = NoAddr THEN createContract(s, tx) ELSE callContract(s, tx), tx)

applyTransaction(s, tx) ==
    applyExecute(SetNonce(SubBalance(s, tx.from, tx.gasPrice * tx.gasLimit), tx.from,
                          GetNonce(s, tx.from) + 1), tx)

\* ExecuteTransaction, after Snapshot; on an error ExecuteBlock makes the
\* failed receipt.
executeSnapshotted(s, tx) ==
    IF validateTransaction(s, tx) # ""
    THEN [s |-> RevertToSnapshot(s, SnapshotID(s)), receipt |-> Receipt(0, GasBase),
          err |-> validateTransaction(s, tx), execErr |-> ""]
    ELSE applyTransaction(s, tx)

ExecuteTransaction(s, tx) == executeSnapshotted(Snapshot(s), tx)

\* The transactions and the genesis states of the runs.
Programs == {<<>>, <<1>>, <<96, 1, 96, 1, 85>>, <<96, 1, 96, 1, 85, 1>>}
GasLimits == {SmallGas, GasBase, AmpleGas}
Transactions ==
    [from : {AddressSpace}, to : {AddressSpace + 1, NoAddr}, nonce : 0..1, gasPrice : 0..MaxGasPrice,
     gasLimit : GasLimits, value : 0..MaxAmount, data : Programs]
Endowments == {BaseFee * g + v : g \in GasLimits, v \in 0..MaxAmount}

\* SetupGenesisAccounts, with one funded account and one contract.
Genesis256(impl, balance, code) ==
    StateCommit(SetCode(SetBalance(CreateAccount(NewStateDB(impl), AddressSpace), AddressSpace, balance),
                        AddressSpace + 1, code))

\* ExecuteBlock's loop body: the transaction is executed on the StateDB.
CallExecuteTransaction ==
    \E tx \in Transactions :
        LET done == ExecuteTransaction(statedb.db, tx) IN
        /\ statedb.calls < MaxTxs
        /\ statedb' = [statedb EXCEPT
                !.db = done.s,
                !.calls = @ + 1,
                !.last = [op |-> "ExecuteTransaction", tx |-> tx, receipt |-> done.receipt,
                          err |-> done.err, execErr |-> done.execErr,
                          before |-> Observed(statedb.db)]]
        /\ UNCHANGED <<consensus, chain, txpool, trie>>

InitExec ==
    /\ ConsensusAtRest
    /\ trie = NoTrie
    /\ chain = NoChain
    /\ txpool = NoTxPool
    /\ \E impl \in {"memory", "trie"}, code \in Programs, balance \in Endowments :
          statedb = [db |-> Genesis256(impl, balance, code),
                     calls |-> 0,
                     last |-> [op |-> "none", tx |-> CHOOSE tx \in Transactions : TRUE, receipt |-> Receipt(1, 0), err |-> "",
                               execErr |-> "", before |-> Observed(NewStateDB(impl))]]

NextExec == CallExecuteTransaction

SpecExec == InitExec /\ [][NextExec]_vars

\* The balance an account should have after a transaction whose contract
\* execution failed: that of before, less the gas for the sender, plus the gas
\* for the coinbase.
ChargedOnly(a) ==
    statedb.last.before.accounts[a].balance
        - (IF a = statedb.last.tx.from
           THEN statedb.last.receipt.gasUsed * statedb.last.tx.gasPrice ELSE 0)
        + (IF a = Coinbase
           THEN statedb.last.receipt.gasUsed * statedb.last.tx.gasPrice ELSE 0)

\* C28: after a transaction whose contract execution failed, the storage
\* writes, the stored code and the value transfer of the execution are undone,
\* the sender has paid gas_used x gas_price and the receipt has status 0.
C28_FailedExecutionUndone ==
    (statedb.last.op = "ExecuteTransaction" /\ statedb.last.execErr # "")
        => /\ Observed(statedb.db).storage = statedb.last.before.storage
           /\ Observed(statedb.db).code = statedb.last.before.code
           /\ \A a \in Addrs : statedb.db.accounts[a].balance = ChargedOnly(a)
           /\ statedb.last.receipt.status = 0

\* C29: no account has a negative balance after ExecuteTransaction.
C29_NoNegativeBalance ==
    statedb.last.op = "ExecuteTransaction"
        => \A a \in Addrs : statedb.db.accounts[a].balance >= 0

\* ------------------------------------------------------ the transaction pool
\*
\* TxPool of src/txpool/list.go: pending maps a sender to its txList (a map
\* from nonce to transaction), all maps a hash to its transaction, priced is
\* the price heap with its count of stale entries.  A transaction is its nonce,
\* gas price and gas limit and whether it carries a signature; the other
\* fields are the same in every transaction of a run.  A hash is modelled by
\* what it is the hash of.

PoolPrices == {0, LowPrice, RoundPrice,
               RoundPrice + (RoundPrice * PriceBump) \div 100 - 1,
               RoundPrice + (RoundPrice * PriceBump) \div 100}
PoolTransactions ==
    [nonce : 0..MaxPoolNonce, gasPrice : PoolPrices, gasLimit : 0..MaxPoolGas, signed : BOOLEAN]
Signers == {"eip155", "homestead"}

\* Transaction.Hash: of nonce, gas price, gas limit, to, value, data, chain id
txHash(tx) == <<tx.nonce, tx.gasPrice, tx.gasLimit>>

\* EIP155Signer.Sender: the first 20 bytes of the signing hash of the
\* transaction; HomesteadSigner.Sender: the address of the one public key
\* crypto_recover returns.
Sender(signer, tx) ==
    IF signer = "eip155" THEN <<tx.nonce, tx.gasPrice, tx.gasLimit>> ELSE <<>>

calculatePriceBump(price, bump) == price + (price * bump) \div 100
priceBump(price, bump) == price + (price * bump) \div 100

\* txList.Overlaps and txList.Add: [ok, old, txs], old = <<>> for nil
Overlaps(txs, tx) == tx.nonce \in DOMAIN txs
NoOld == <<>>
txListAdd(txs, tx, bump) ==
    IF Overlaps(txs, tx) /\ tx.gasPrice < calculatePriceBump(txs[tx.nonce].gasPrice, bump)
    THEN [ok |-> FALSE, old |-> NoOld, txs |-> txs]
    ELSE [ok |-> TRUE, old |-> IF Overlaps(txs, tx) THEN <<txs[tx.nonce]>> ELSE NoOld,
          txs |-> [n \in DOMAIN txs \cup {tx.nonce} |-> IF n = tx.nonce THEN tx ELSE txs[n]]]

\* txList.Flatten: the transactions by nonce
RECURSIVE ByNonce(_, _)
ByNonce(txs, nonces) ==
    IF nonces = {} THEN <<>>
    ELSE LET n == CHOOSE x \in nonces : \A y \in nonces : x <= y
         IN  <<txs[n]>> \o ByNonce(txs, nonces \ {n})
Flatten(txs) == ByNonce(txs, DOMAIN txs)

\* txLookup
lookupAdd(all, tx) == [h \in DOMAIN all \cup {txHash(tx)} |-> IF h = txHash(tx) THEN tx ELSE all[h]]
lookupRemove(all, hash) == [h \in DOMAIN all \ {hash} |-> all[h]]
Count(all) == Cardinality(DOMAIN all)

\* heap.Push on priceHeap: append, then up(); the higher gas price is Less
RECURSIVE heapUp(_, _)
heapUp(h, j) ==
    IF j = 1 \/ ~(h[j].gasPrice > h[j \div 2].gasPrice) THEN h
    ELSE heapUp([h EXCEPT ![j] = h[j \div 2], ![j \div 2] = h[j]], j \div 2)
Put(priced, tx) == [priced EXCEPT !.items = heapUp(Append(@, tx), Len(@) + 1)]

\* txPricedList.Removed, with Reheap
Removed(priced, count) ==
    IF priced.stales + count > Len(priced.items) \div 4
    THEN [items |-> <<>>, stales |-> 0]
    ELSE [priced EXCEPT !.stales = @ + count]

NewTxPool(signer) ==
    [signer |-> signer, pending |-> <<>>, all |-> <<>>,
     priced |-> [items |-> <<>>, stales |-> 0], pendingCount |-> 0]

\* TxPool.validateTx: Transaction.Validate, then the price limit (the size of
\* a transaction without data is below the 32 KiB limit)
validateTx(tx) ==
    IF tx.gasPrice < 0 THEN "gas price cannot be negative"
    ELSE IF tx.gasLimit = 0 THEN "gas limit cannot be zero"
    ELSE IF tx.gasPrice < PriceLimit THEN "gas price too low"
    ELSE ""

\* The result of add: the pool and the error ("" for nil)
Returns(pool, err) == [pool |-> pool, err |-> err]

\* all.Remove(old.Hash()) and priced.Removed(1) when old is not nil, then
\* all.Add(tx) and priced.Put(tx)
poolIndexed(pool, old, tx) ==
    LET gone == IF old = NoOld THEN pool
                ELSE [pool EXCEPT !.all = lookupRemove(@, txHash(old[1])),
                                  !.priced = Removed(@, 1)]
    IN  [gone EXCEPT !.all = lookupAdd(@, tx), !.priced = Put(@, tx)]

\* TxPool.replace
replace(pool, oldTx, newTx) ==
    IF newTx.gasPrice < priceBump(oldTx.gasPrice, PriceBump)
    THEN Returns(pool, "replacement transaction underpriced")
    ELSE Returns(poolIndexed(pool, <<oldTx>>, newTx), "")

\* TxPool.add, once the sender is known and the pool is not full: the
\* replacement of a pending transaction of the same nonce, or the insertion.
addPending(pool, from, tx) ==
    LET txs == IF from \in DOMAIN pool.pending THEN pool.pending[from] ELSE <<>>
        added == txListAdd(txs, tx, PriceBump)
        listed == [pool EXCEPT !.pending =
                      [a \in DOMAIN pool.pending \cup {from} |->
                          IF a = from THEN added.txs ELSE pool.pending[a]]]
    IN  IF ~added.ok THEN Returns(pool, "replacement transaction underpriced")
        ELSE IF Overlaps(txs, tx) THEN Returns(poolIndexed(listed, added.old, tx), "")
        ELSE Returns([poolIndexed(listed, added.old, tx) EXCEPT !.pendingCount = @ + 1], "")

\* TxPool.add (AddLocal and AddRemote)
add(pool, tx) ==
    IF validateTx(tx) # "" THEN Returns(pool, validateTx(tx))
    ELSE IF ~tx.signed THEN Returns(pool, "transaction not signed")
    ELSE IF Count(pool.all) >= PoolCapacity
    THEN IF txHash(tx) \in DOMAIN pool.all
         THEN replace(pool, pool.all[txHash(tx)], tx)
         ELSE Returns(pool, "transaction pool is full")
    ELSE addPending(pool, Sender(pool.signer, tx), tx)

\* TxPool.Get (<<>> for nil) and TxPool.Pending
poolGet(pool, hash) == IF hash \in DOMAIN pool.all THEN <<pool.all[hash]>> ELSE <<>>
Pending(pool) == [a \in DOMAIN pool.pending |-> Flatten(pool.pending[a])]

\* sort.Slice with "the higher gas price first" on a slice of at most 12
\* elements, an insertion sort: an element moves up past the lower prices only
RECURSIVE insertionSort(_, _)
insertionSort(sorted, rest) ==
    IF rest = <<>> THEN sorted
    ELSE LET tx == Head(rest)
             ahead == {i \in 1..Len(sorted) : sorted[i].gasPrice >= tx.gasPrice}
             k == IF ahead = {} THEN 0 ELSE CHOOSE i \in ahead : \A j \in ahead : j <= i
         IN  insertionSort(SubSeq(sorted, 1, k) \o <<tx>> \o SubSeq(sorted, k + 1, Len(sorted)),
                           Tail(rest))

\* The candidates: the pending lists flattened, in the order the range over
\* the map pool.pending visits the senders
RECURSIVE candidatesOf(_, _)
candidatesOf(pool, visit) ==
    IF visit = <<>> THEN <<>>
    ELSE Flatten(pool.pending[Head(visit)]) \o candidatesOf(pool, Tail(visit))

\* "if totalGas+tx.GasLimit > maxGas { break }"
RECURSIVE selectUpTo(_, _, _)
selectUpTo(candidates, totalGas, maxGas) ==
    IF candidates = <<>> \/ totalGas + Head(candidates).gasLimit > maxGas THEN <<>>
    ELSE <<Head(candidates)>> \o selectUpTo(Tail(candidates), totalGas + Head(candidates).gasLimit, maxGas)

\* TxPool.GetTransactionsForBlock
GetTransactionsForBlock(pool, maxGas, visit) ==
    selectUpTo(insertionSort(<<>>, candidatesOf(pool, visit)), 0, maxGas)

\* The orders in which a range over a map can visit its keys
Visits(keys) ==
    {v \in [1..Cardinality(keys) -> keys] : \A i, j \in 1..Cardinality(keys) : v[i] = v[j] => i = j}

\* The hashes of the transactions in all, in the order of their admission
Admitted(order, before, after) ==
    LET kept == SelectSeq(order, LAMBDA h : h \in DOMAIN after)
        new == (DOMAIN after) \ (DOMAIN before)
    IN  IF new = {} THEN kept ELSE Append(kept, CHOOSE h \in new : TRUE)

\* A call of AddLocal or AddRemote with any transaction; last keeps the
\* transaction, the error and the pool the call found.  order is the order of
\* admission of the transactions the pool holds: a transaction admitted again
\* in place of itself is the last admitted.
CallAdd ==
    /\ txpool.signer \in Signers
    /\ \E tx \in PoolTransactions :
        LET done == add(txpool.pool, tx)
            left == IF done.err = "" THEN lookupRemove(done.pool.all, txHash(tx))
                    ELSE done.pool.all
        IN  txpool' = [txpool EXCEPT !.pool = done.pool,
                                     !.order = Admitted(Admitted(@, txpool.pool.all, left),
                                                        left, done.pool.all),
                                     !.last = [op |-> "add", tx |-> tx, err |-> done.err,
                                               before |-> txpool.pool]]
    /\ UNCHANGED <<consensus, chain, statedb, trie>>

\* A call of GetTransactionsForBlock with any gas limit; the range over the
\* map of pending lists visits the senders in any order.
CallGetTransactionsForBlock ==
    /\ txpool.signer \in Signers
    /\ \E maxGas \in 0..MaxBlockGas, visit \in Visits(DOMAIN txpool.pool.pending) :
        txpool' = [txpool EXCEPT !.last =
                      [op |-> "GetTransactionsForBlock", maxGas |-> maxGas,
                       result |-> GetTransactionsForBlock(txpool.pool, maxGas, visit)]]
    /\ UNCHANGED <<consensus, chain, statedb, trie>>

NoAdd == [op |-> "none"]

InitPool ==
    /\ ConsensusAtRest
    /\ trie = NoTrie
    /\ chain = NoChain
    /\ statedb = NoStateDB
    /\ \E signer \in Signers :
           txpool = [signer |-> signer, pool |-> NewTxPool(signer), order |-> <<>>,
                     last |-> NoAdd]

NextPool == CallAdd \/ CallGetTransactionsForBlock

SpecPool == InitPool /\ [][NextPool]_vars

\* The last call offered a valid, signed transaction to a pool that was not
\* full and held a transaction of the same sender and nonce.
Offered == txpool.last.tx
Before == txpool.last.before
Replacing ==
    /\ txpool.signer \in Signers
    /\ txpool.last.op = "add"
    /\ validateTx(Offered) = "" /\ Offered.signed
    /\ Count(Before.all) < PoolCapacity
    /\ Sender(txpool.signer, Offered) \in DOMAIN Before.pending
    /\ Overlaps(Before.pending[Sender(txpool.signer, Offered)], Offered)
Held == Before.pending[Sender(txpool.signer, Offered)][Offered.nonce]

\* C30: a transaction of gas price q offered for the (sender, nonce) of a held
\* transaction A of gas price p is admitted exactly if q >= p (100 + b) / 100;
\* then A is gone from Get and Pending and one transaction is left for the
\* (sender, nonce); otherwise the pool is as it was.
C30_PriceBumpReplacement ==
    Replacing =>
        /\ (txpool.last.err = "") <=> (Offered.gasPrice * 100 >= Held.gasPrice * (100 + PriceBump))
        /\ txpool.last.err = "" =>
              /\ Pending(txpool.pool)[Sender(txpool.signer, Offered)]
                     = Flatten([Before.pending[Sender(txpool.signer, Offered)]
                                   EXCEPT ![Offered.nonce] = Offered])
              /\ txHash(Held) # txHash(Offered) => poolGet(txpool.pool, txHash(Held)) = <<>>
              /\ poolGet(txpool.pool, txHash(Offered)) = <<Offered>>
              /\ Cardinality({h \in DOMAIN txpool.pool.all :
                                /\ Sender(txpool.signer, txpool.pool.all[h])
                                       = Sender(txpool.signer, Offered)
                                /\ txpool.pool.all[h].nonce = Offered.nonce}) = 1
        /\ txpool.last.err # "" =>
              /\ txpool.pool.pending = Before.pending
              /\ txpool.pool.all = Before.all

\* The transactions the pool holds in the order of their admission, stably
\* sorted by gas price, the highest first.
InAdmissionOrder == [i \in 1..Len(txpool.order) |-> txpool.pool.all[txpool.order[i]]]
RECURSIVE GasOf(_)
GasOf(txs) == IF txs = <<>> THEN 0 ELSE Head(txs).gasLimit + GasOf(Tail(txs))
LongestPrefix(txs, maxGas) ==
    LET fits == {n \in 0..Len(txs) : GasOf(SubSeq(txs, 1, n)) <= maxGas}
    IN  SubSeq(txs, 1, CHOOSE n \in fits : \A m \in fits : m <= n)

\* C31: GetTransactionsForBlock(max_gas) returns the longest prefix within
\* max_gas of the pending transactions by gas price, the highest first and
\* equal prices in the order of insertion; every call on the same pool returns
\* the same list.
C31_BlockSelection ==
    (txpool.signer \in Signers /\ txpool.last.op = "GetTransactionsForBlock")
        => /\ txpool.last.result
                  = LongestPrefix(insertionSort(<<>>, InAdmissionOrder), txpool.last.maxGas)
           /\ \A visit \in Visits(DOMAIN txpool.pool.pending) :
                  GetTransactionsForBlock(txpool.pool, txpool.last.maxGas, visit)
                      = txpool.last.result

\* C40: in the list GetTransactionsForBlock returns, the transactions of a
\* sender are in ascending order of nonce, and none comes before or without
\* the sender's pending transaction of the nonce just below.
C40_NonceOrder ==
    (txpool.signer \in Signers /\ txpool.last.op = "GetTransactionsForBlock")
        => \A i \in 1..Len(txpool.last.result) :
              LET tx == txpool.last.result[i]
                  from == Sender(txpool.signer, tx)
              IN  /\ \A j \in 1..(i - 1) :
                         Sender(txpool.signer, txpool.last.result[j]) = from
                             => txpool.last.result[j].nonce < tx.nonce
                  /\ (tx.nonce - 1) \in DOMAIN txpool.pool.pending[from]
                         => \E j \in 1..(i - 1) :
                                txpool.last.result[j] = txpool.pool.pending[from][tx.nonce - 1]

\* --------------------------------------------------- the Merkle Patricia trie
\*
\* MerklePatriciaTrie of src/trie/trie.go over the nodes of
\* src/unnamed/part_011.  A key is a sequence of bytes, walked as nibbles; a
\* hash is modelled by the encoding it is the hash of, the cached hash of a
\* node (set once, on a node that is not changed afterwards) by the hash.

TrieBytes == {17, 18}
TrieKeys == UNION {[1..n -> TrieBytes] : n \in 1..MaxKeyLen}
TrieValues == {<<v>> : v \in 1..MaxValue}
Nibbles == 0..(NumNibbles - 1)

EmptyNodeInstance == [type |-> EmptyNode]
NewLeafNode(key, value) == [type |-> LeafNode, key |-> key, value |-> value]
NewExtensionNode(key, child) == [type |-> ExtensionNode, key |-> key, child |-> child]
NewBranchNode == [type |-> BranchNode, children |-> [i \in Nibbles |-> EmptyNodeInstance],
                  value |-> <<>>]
SetChild(n, index, child) == [n EXCEPT !.children[index] = child]
GetChild(n, index) == n.children[index]
SetValue(n, value) == [n EXCEPT !.value = value]

RECURSIVE keyToNibbles(_)
keyToNibbles(key) ==
    IF key = <<>> THEN <<>>
    ELSE <<Head(key) \div NumNibbles, Head(key) % NumNibbles>> \o keyToNibbles(Tail(key))

RECURSIVE commonPrefix(_, _)
commonPrefix(a, b) ==
    IF a = <<>> \/ b = <<>> \/ Head(a) # Head(b) THEN 0 ELSE 1 + commonPrefix(Tail(a), Tail(b))

From(key, n) == SubSeq(key, n + 1, Len(key))
UpTo(key, n) == SubSeq(key, 1, n)
StartsWith(key, prefix) == Len(key) >= Len(prefix) /\ UpTo(key, Len(prefix)) = prefix

\* Node.Encode and Node.Hash: the type, the key, the hashes of the children
\* and the value; the hash of no node is the zero hash
trieZeroHash == [type |-> EmptyNode]
RECURSIVE Encode(_)
NodeHash(n) == IF n.type = EmptyNode THEN trieZeroHash ELSE Encode(n)
Encode(n) ==
    IF n.type = LeafNode THEN [type |-> LeafNode, key |-> n.key, value |-> n.value]
    ELSE IF n.type = ExtensionNode
    THEN [type |-> ExtensionNode, key |-> n.key, child |-> NodeHash(n.child)]
    ELSE IF n.type = BranchNode
    THEN [type |-> BranchNode, children |-> [i \in Nibbles |-> NodeHash(n.children[i])],
          value |-> n.value]
    ELSE [type |-> EmptyNode, encoded |-> TRUE]

\* MerklePatriciaTrie.Root
Root(root) == NodeHash(root)

\* MerklePatriciaTrie.get: [value, found]
NotFound == [value |-> <<>>, found |-> FALSE]
Found(value) == [value |-> value, found |-> TRUE]
RECURSIVE get(_, _)
get(node, key) ==
    IF node.type = EmptyNode THEN NotFound
    ELSE IF node.type = LeafNode THEN (IF node.key = key THEN Found(node.value) ELSE NotFound)
    ELSE IF node.type = ExtensionNode
    THEN IF ~StartsWith(key, node.key) THEN NotFound
         ELSE get(node.child, From(key, Len(node.key)))
    ELSE IF key = <<>> THEN (IF Len(node.value) > 0 THEN Found(node.value) ELSE NotFound)
    ELSE get(GetChild(node, Head(key)), Tail(key))
trieGet(root, key) == IF key = <<>> THEN NotFound ELSE get(root, keyToNibbles(key))

\* The branch of put with the rest of a key under it: the value on the branch
\* when nothing of the key is left, a new leaf below it otherwise
branchWith(branch, rest, value) ==
    IF rest = <<>> THEN SetValue(branch, value)
    ELSE SetChild(branch, Head(rest), NewLeafNode(Tail(rest), value))

\* putIntoLeaf
putIntoLeaf(leaf, key, value) ==
    IF leaf.key = key THEN NewLeafNode(key, value)
    ELSE IF commonPrefix(leaf.key, key) = 0
    THEN branchWith(branchWith(NewBranchNode, leaf.key, leaf.value), key, value)
    ELSE NewExtensionNode(
            UpTo(key, commonPrefix(leaf.key, key)),
            branchWith(branchWith(NewBranchNode, From(leaf.key, commonPrefix(leaf.key, key)),
                                  leaf.value),
                       From(key, commonPrefix(leaf.key, key)), value))

RECURSIVE put(_, _, _)

\* putIntoExtension: down the child, or the extension split at the common
\* prefix (of which something is left of the extension's key)
putIntoExtension(ext, key, value) ==
    IF commonPrefix(ext.key, key) = Len(ext.key)
    THEN NewExtensionNode(ext.key, put(ext.child, From(key, Len(ext.key)), value))
    ELSE IF commonPrefix(ext.key, key) = 0
    THEN branchWith(SetChild(NewBranchNode, Head(ext.key),
                             IF Len(ext.key) = 1 THEN ext.child
                             ELSE NewExtensionNode(Tail(ext.key), ext.child)),
                    key, value)
    ELSE NewExtensionNode(
            UpTo(ext.key, commonPrefix(ext.key, key)),
            branchWith(SetChild(NewBranchNode, ext.key[commonPrefix(ext.key, key) + 1],
                                NewExtensionNode(From(ext.key, commonPrefix(ext.key, key) + 1),
                                                 ext.child)),
                       From(key, commonPrefix(ext.key, key)), value))

\* putIntoBranch
putIntoBranch(branch, key, value) ==
    IF key = <<>> THEN SetValue(branch, value)
    ELSE SetChild(branch, Head(key), put(GetChild(branch, Head(key)), Tail(key), value))

\* MerklePatriciaTrie.put
put(node, key, value) ==
    IF node.type = EmptyNode THEN NewLeafNode(key, value)
    ELSE IF node.type = LeafNode THEN putIntoLeaf(node, key, value)
    ELSE IF node.type = ExtensionNode THEN putIntoExtension(node, key, value)
    ELSE putIntoBranch(node, key, value)

\* MerklePatriciaTrie.delete
RECURSIVE delete(_, _)
deleteBelow(ext, newChild) ==
    IF newChild.type = EmptyNode THEN EmptyNodeInstance ELSE NewExtensionNode(ext.key, newChild)
delete(node, key) ==
    IF node.type = EmptyNode THEN EmptyNodeInstance
    ELSE IF node.type = LeafNode THEN (IF node.key = key THEN EmptyNodeInstance ELSE node)
    ELSE IF node.type = ExtensionNode
    THEN IF ~StartsWith(key, node.key) THEN node
         ELSE deleteBelow(node, delete(node.child, From(key, Len(node.key))))
    ELSE IF key = <<>> THEN [node EXCEPT !.value = <<>>]
    ELSE SetChild(node, Head(key), delete(GetChild(node, Head(key)), Tail(key)))

\* MerklePatriciaTrie.Put and Delete: the new root (the keys and values of the
\* runs are not empty)
triePut(root, key, value) == put(root, keyToNibbles(key), value)
trieDelete(root, key) == delete(root, keyToNibbles(key))

\* MerklePatriciaTrie.prove and Prove: the encodings of the nodes on the path
RECURSIVE prove(_, _)
prove(node, key) ==
    IF node.type = EmptyNode THEN <<>>
    ELSE IF node.type = LeafNode THEN <<Encode(node)>>
    ELSE IF node.type = ExtensionNode
    THEN IF ~StartsWith(key, node.key) THEN <<Encode(node)>>
         ELSE <<Encode(node)>> \o prove(node.child, From(key, Len(node.key)))
    ELSE IF key = <<>> THEN <<Encode(node)>>
    ELSE <<Encode(node)>> \o prove(GetChild(node, Head(key)), Tail(key))
Prove(root, key) == prove(root, keyToNibbles(key))

\* VerifyProof
VerifyProof(rootHash, key, value, proof) == IF Len(proof) = 0 THEN FALSE ELSE TRUE

\* The key -> value mapping a trie holds, and the trie built from a mapping by
\* Put on the empty trie, the keys in one fixed order
Mapping(root) == {<<k, trieGet(root, k).value>> : k \in {x \in TrieKeys : trieGet(root, x).found}}
RECURSIVE Built(_, _)
Built(root, pairs) ==
    IF pairs = {} THEN root
    ELSE LET kv == CHOOSE x \in pairs : TRUE
         IN  Built(triePut(root, kv[1], kv[2]), pairs \ {kv})

\* What is kept of the last call on the trie: the operation, its arguments and
\* its result; for a Put, whether the key was absent and the root hash before;
\* for a Delete, whether it deletes the key the call before it has put, absent
\* until then, and the root hash before that Put.
NoTrieCall ==
    [op |-> "none", key |-> <<>>, value |-> <<>>, absent |-> FALSE, undoes |-> FALSE,
     rootBefore |-> trieZeroHash, rootHash |-> trieZeroHash, proof |-> <<>>, ok |-> FALSE]

TrieCalled(root, last) ==
    /\ trie' = [on |-> TRUE, root |-> root, calls |-> trie.calls + (IF root = trie.root THEN 0 ELSE 1),
                last |-> last]
    /\ UNCHANGED <<consensus, chain, statedb, txpool>>

CallPut ==
    /\ trie.on /\ trie.calls < MaxTrieCalls
    /\ \E key \in TrieKeys, value \in TrieValues :
          TrieCalled(triePut(trie.root, key, value),
                     [NoTrieCall EXCEPT !.op = "Put", !.key = key, !.value = value,
                                        !.absent = ~trieGet(trie.root, key).found,
                                        !.rootBefore = Root(trie.root)])

CallDelete ==
    /\ trie.on /\ trie.calls < MaxTrieCalls
    /\ \E key \in TrieKeys :
          TrieCalled(trieDelete(trie.root, key),
                     [NoTrieCall EXCEPT !.op = "Delete", !.key = key,
                                        !.undoes = /\ trie.last.op = "Put"
                                                   /\ trie.last.key = key
                                                   /\ trie.last.absent,
                                        !.rootBefore = trie.last.rootBefore])

\* VerifyProof is called with the root hash of the trie or another hash, any
\* key and value, and the proof of the key, of another key, or no proof.
WrongValue == <<0>>
CallVerifyProof ==
    /\ trie.on
    /\ \E rootHash \in {Root(trie.root), NodeHash(NewLeafNode(<<>>, WrongValue))},
          key \in TrieKeys, value \in TrieValues \cup {WrongValue},
          proof \in {Prove(trie.root, k) : k \in TrieKeys} \cup {<<>>} :
          TrieCalled(trie.root,
                     [NoTrieCall EXCEPT !.op = "VerifyProof", !.key = key, !.value = value,
                                        !.rootHash = rootHash, !.proof = proof,
                                        !.ok = VerifyProof(rootHash, key, value, proof)])

InitTrie ==
    /\ ConsensusAtRest
    /\ chain = NoChain
    /\ statedb = NoStateDB
    /\ txpool = NoTxPool
    /\ trie = [on |-> TRUE, root |-> EmptyNodeInstance, calls |-> 0, last |-> NoTrieCall]

NextTrie == CallPut \/ CallDelete \/ CallVerifyProof

SpecTrie == InitTrie /\ [][NextTrie]_vars

\* C32: Put(k, v) of a key k the trie does not hold, followed by Delete(k),
\* gives back the root hash the trie had (the zero hash for the empty trie);
\* and a trie has the root hash of every trie that holds the same mapping,
\* whatever Puts and Deletes have made it.
C32_DeleteRestoresRoot ==
    trie.on =>
        /\ (trie.last.op = "Delete" /\ trie.last.undoes) => Root(trie.root) = trie.last.rootBefore
        /\ Root(trie.root) = Root(Built(EmptyNodeInstance, Mapping(trie.root)))

\* C33: VerifyProof(R, k, v, P) is true exactly if R is the root hash of the
\* trie, P the proof the trie produces for k, and Get(k) returns v.
C33_ProofVerifies ==
    (trie.on /\ trie.last.op = "VerifyProof")
        => (trie.last.ok <=> /\ trie.last.rootHash = Root(trie.root)
                             /\ trie.last.proof = Prove(trie.root, trie.last.key)
                             /\ trieGet(trie.root, trie.last.key) = Found(trie.last.value))

\* ------------------------------------------------------------- timeouts, locks and restarts

\* The votes that replica r sends in the step.
NewVotes(r) ==
    {replica'[r].sentVotes[i] : i \in (Len(replica[r].sentVotes) + 1)..Len(replica'[r].sentVotes)}

\* C34: once a replica has broadcast its TimeoutMsg for view v, every vote it
\* sends from then on is for a block of a view above v.
C34_NoVoteAfterTimeout ==
    [][\A r \in honest : \A vote \in NewVotes(r) : \A v \in replica'[r].sentTimeouts :
            vote.view > v]_vars

\* C35: the view of the block a replica is locked on never decreases, whether
\* a CommitRule moves the lock or a restart loads it.
C35_LockViewMonotone ==
    [][\A r \in honest :
            blocks'[replica'[r].bLock].view >= blocks[replica[r].bLock].view]_vars

\* The last block replica r has executed, genesis when it has executed none.
LastExecuted(r) ==
    IF replica[r].executed = <<>> THEN GenesisHash
    ELSE replica[r].executed[Len(replica[r].executed)]

\* Replica r is up after the step, and the step was a commit that returned
\* (bExec or committed_hash has changed) or a restart (bExec is loaded).
CommitReturned(r) ==
    /\ replica'[r].status # "down"
    /\ \/ replica'[r].ssCommitted # replica[r].ssCommitted
       \/ replica'[r].bExec # replica[r].bExec
       \/ replica'[r].restarts # replica[r].restarts

\* C36: when commit has returned, committed_hash names bExec, the last block
\* executed; the view of the block committed_hash names never decreases; a
\* restarted replica resumes with bExec the last block it executed, and no
\* block is executed twice.
C36_CommittedHashIsExecuted ==
    [][\A r \in honest :
            /\ CommitReturned(r) =>
                    /\ replica'[r].bExec = LastExecuted(r)'
                    /\ replica'[r].status = "running" => replica'[r].ssCommitted = replica'[r].bExec
            /\ blocks'[replica'[r].ssCommitted].view >= blocks[replica[r].ssCommitted].view
            /\ Cardinality(Executed(r)') = Len(replica'[r].executed)]_vars

\* ------------------------------------------------------------- the two mutexes

\* The thread waits for chain.mut (at the start of Get, after the Fetch, at
\* the start of PruneToHeight) or for cs.mut (in CommittedBlock).
WaitsForMut(t) == chain.thread[t].pc \in {"lock", "relock", "prune"}
WaitsForCsMut(t) == chain.thread[t].pc = "committed"

\* C37: no two threads wait for each other: never does one hold chain.mut (in
\* PruneToHeight) and wait for cs.mut while the holder of cs.mut (in commit)
\* waits for chain.mut; from such a state neither call returns.
C37_NoDeadlock ==
    ~ \E a \in Threads, b \in Threads :
        /\ chain.mut = a /\ WaitsForCsMut(a)
        /\ chain.csMut = b /\ WaitsForMut(b)

\* ------------------------------------------------------------- proposals

\* The replica with a client at work: each commandQueue.Get of Propose hands
\* out the next batch, so the command of a proposal made after a restart is
\* not the command of the proposal made before it.
StartWithCommand ==
    \E r \in honest, cmd \in 1..MaxCommands :
        /\ replica[r].status = "new"
        /\ cmd = Cardinality(replica[r].proposed) + 1
        /\ Ran(r, [QuietIO EXCEPT !.cmd = cmd],
               Start(Handle(r, [QuietIO EXCEPT !.cmd = cmd])),
               Start(Handle(r, [QuietIO EXCEPT !.cmd = cmd])))

NextRestart ==
    \/ CreateBlock
    \/ StartWithCommand
    \/ DeliverProposal
    \/ LocalTimeout
    \/ Crash
    \/ Restart

SpecRestart == InitCrash /\ [][NextRestart]_vars

\* C38: a replica broadcasts a proposal for view v only as the leader of v and
\* while it is in view v, and over the whole trace, restarts included, it
\* broadcasts no two proposals for one view.
C38_OneProposalPerView ==
    [][\A r \in honest :
            /\ \A h \in replica'[r].proposed \ replica[r].proposed :
                    /\ GetLeader(blocks'[h].view) = r
                    /\ blocks'[h].view = replica'[r].currentView
            /\ \A h1 \in replica'[r].proposed, h2 \in replica'[r].proposed :
                    blocks'[h1].view = blocks'[h2].view => h1 = h2]_vars

\* ------------------------------------------------------------- the timeout collection

\* The views replica r holds timeout messages of after the step.
CollectedViews(r) == {t[1] : t \in replica'[r].timeouts}

\* C39: when OnRemoteTimeout has returned (a TimeoutMsg was delivered, or the
\* replica's own timer fired and OnLocalTimeout delivered its message to
\* itself), the collection holds no message of a view below the view the
\* replica is in at that moment.
C39_NoStaleTimeouts ==
    [][(DeliverTimeout \/ TimelyTimeout) =>
            \A r \in honest :
                (replica'[r] # replica[r] /\ replica'[r].status = "running")
                    => \A view \in CollectedViews(r) : view >= replica'[r].currentView]_vars

====
